---- MODULE Spec2Model ----
(***************************************************************************)
(* Model of the VibeCodeMCP server manager (src/server.py and              *)
(* src/modified_server.py): the source patcher organize_imports_and_code,  *)
(* the JSON registry store, and the server / tool lifecycle operations.    *)
(* Text is modelled character by character: every Python str is a string   *)
(* value here, indices are 0-based as in Python, and -1 is "not found".    *)
(***************************************************************************)
EXTENDS Integers, Sequences, FiniteSets, TLC

(***************************************************************************)
(* Python str primitives                                                   *)
(***************************************************************************)

\* s[i] (0-based), "" when i is out of range
CharAt(s, i) ==
    IF i >= 0 /\ i < Len(s) THEN SubSeq(s, i + 1, i + 1) ELSE ""

\* a slice bound as Python normalises it: counted from the end when negative,
\* then clamped to 0..n
SliceBound(x, n) ==
    IF x < 0 THEN (IF x + n < 0 THEN 0 ELSE x + n)
    ELSE IF x > n THEN n ELSE x

\* the characters of s from index l up to, not including, index h
Between(s, l, h) == IF l >= h THEN "" ELSE SubSeq(s, l + 1, h)

\* s[lo:hi]
PySlice(s, lo, hi) ==
    Between(s, SliceBound(lo, Len(s)), SliceBound(hi, Len(s)))

\* s[lo:]
PySliceFrom(s, lo) == PySlice(s, lo, Len(s))

\* s[:hi]
PySliceTo(s, hi) == PySlice(s, 0, hi)

\* s.startswith(p, i)
StartsWithAt(s, p, i) ==
    /\ i >= 0
    /\ i + Len(p) <= Len(s)
    /\ SubSeq(s, i + 1, i + Len(p)) = p

\* s.startswith(p)
StartsWith(s, p) == StartsWithAt(s, p, 0)

\* s.endswith(p)
EndsWith(s, p) == Len(p) <= Len(s) /\ StartsWithAt(s, p, Len(s) - Len(p))

RECURSIVE FindFrom(_, _, _)
\* s.find(p, i) for i >= 0: the lowest index >= i where p occurs, -1 when
\* there is none; the text is scanned sixteen positions at a time
FindFrom(s, p, i) ==
    LET n == Len(s) - Len(p)
        h == IF i + 15 < n THEN i + 15 ELSE n
        k == CHOOSE x \in i..(h + 1) :
                 /\ (x = h + 1 \/ SubSeq(s, x + 1, x + Len(p)) = p)
                 /\ \A j \in i..(x - 1) : SubSeq(s, j + 1, j + Len(p)) # p
    IN  IF i > n THEN -1 ELSE IF k <= h THEN k ELSE FindFrom(s, p, h + 1)

\* s.find(p)
PyFind(s, p) == FindFrom(s, p, 0)

\* p in s
Contains(s, p) == PyFind(s, p) # -1

RECURSIVE ReplaceFrom(_, _, _, _)
\* s.replace(old, new) applied to s[i:], old non-empty: left to right,
\* non-overlapping occurrences, k being the next one
ReplaceFrom(s, old, new, i) ==
    LET k == FindFrom(s, old, i)
    IN  IF k = -1 THEN PySliceFrom(s, i)
        ELSE PySlice(s, i, k) \o new \o ReplaceFrom(s, old, new, k + Len(old))

\* s.replace(old, new)
PyReplace(s, old, new) == ReplaceFrom(s, old, new, 0)

\* the characters str.strip() removes and the regex class \s matches
Whitespace == {" ", "\t", "\n", "\r", "\f"}

WordChars == "abcdefghijklmnopqrstuvwxyzABCDEFGHIJKLMNOPQRSTUVWXYZ0123456789_"

\* the regex class \w
WordSet == {SubSeq(WordChars, i, i) : i \in 1..Len(WordChars)}

\* the regex class [\w.]
DottedSet == WordSet \cup {"."}

RECURSIVE SkipWhile(_, _, _)
\* end of the longest run of characters of the class C that starts at i, for
\* i >= 0; the text is scanned sixteen positions at a time
SkipWhile(s, i, C) ==
    LET h == IF i + 15 < Len(s) - 1 THEN i + 15 ELSE Len(s) - 1
        k == CHOOSE x \in i..(h + 1) :
                 /\ (x = h + 1 \/ SubSeq(s, x + 1, x + 1) \notin C)
                 /\ \A j \in i..(x - 1) : SubSeq(s, j + 1, j + 1) \in C
    IN  IF i >= Len(s) THEN i ELSE IF k <= h THEN k ELSE SkipWhile(s, h + 1, C)

\* start of the trailing whitespace run of s[:i]
RSkipSpace(s, i) ==
    IF \E k \in 0..(i - 1) : CharAt(s, k) \notin Whitespace
    THEN 1 + CHOOSE k \in 0..(i - 1) :
                 /\ CharAt(s, k) \notin Whitespace
                 /\ \A j \in (k + 1)..(i - 1) : CharAt(s, j) \in Whitespace
    ELSE 0

\* s.strip()
PyStrip(s) ==
    Between(s, SkipWhile(s, 0, Whitespace), RSkipSpace(s, Len(s)))

\* the ASCII characters the model uses, in code-point order
AsciiOrder ==
    "\t\n\f\r !\"#$%&'()*+,-./0123456789:;<=>?@ABCDEFGHIJKLMNOPQRSTUVWXYZ[\\]^_abcdefghijklmnopqrstuvwxyz{|}~"

\* ord(c), up to an order-preserving renumbering
Ord(c) == PyFind(AsciiOrder, c)

\* a < b on Python str: decided at the first index where they differ, a
\* proper prefix being smaller
StrLess(a, b) ==
    IF \E k \in 0..(Len(a) - 1) : CharAt(a, k) # CharAt(b, k) /\ k < Len(b)
    THEN \E k \in 0..(Len(a) - 1) :
             /\ k < Len(b)
             /\ Ord(CharAt(a, k)) < Ord(CharAt(b, k))
             /\ \A j \in 0..(k - 1) : CharAt(a, j) = CharAt(b, j)
    ELSE Len(a) < Len(b)

\* min(S) for a non-empty set S of str
MinString(S) == CHOOSE x \in S : \A y \in S : y = x \/ StrLess(x, y)

RECURSIVE SortedStrings(_)
\* sorted(S) for a set S of str
SortedStrings(S) ==
    IF S = {} THEN <<>>
    ELSE <<MinString(S)>> \o SortedStrings(S \ {MinString(S)})

\* set(l) for a list l
ToSet(l) == {l[i] : i \in 1..Len(l)}

(***************************************************************************)
(* extract_imports: the regular expression of src/server.py line 82,       *)
(* matched the way Python's backtracking engine matches it.  A matcher     *)
(* takes the index where it starts and returns the index just after its    *)
(* match; -1 stands for "no match", as argument and as result.             *)
(***************************************************************************)

\* the literal w
Lit(s, i, w) == IF i # -1 /\ StartsWithAt(s, w, i) THEN i + Len(w) ELSE -1

\* c+ for a character class C, greedy
Plus(s, i, C) ==
    IF i # -1 /\ SkipWhile(s, i, C) > i THEN SkipWhile(s, i, C) ELSE -1

\* c* for a character class C, greedy
Star(s, i, C) == IF i = -1 THEN -1 ELSE SkipWhile(s, i, C)

\* a|b and a? : the first alternative when it matches
OrElse(a, b) == IF a # -1 THEN a ELSE b

RECURSIVE NameListTail(_, _)
\* (?:\s*,\s*\w+)* from i: an iteration, having matched up to n, is followed
\* by the next; one that fails leaves the match at i
NameListTail(s, i) ==
    IF i = -1 THEN -1
    ELSE LET Step(n) == IF n = -1 THEN i ELSE NameListTail(s, n)
         IN  Step(Plus(s, Star(s, Lit(s, Star(s, i, Whitespace), ","),
                               Whitespace),
                       WordSet))

\* \w+(?:\s*,\s*\w+)*
MatchNameList(s, i) == NameListTail(s, Plus(s, i, WordSet))

\* import\s+\w+(?:\s*,\s*\w+)*
MatchPlainImport(s, i) ==
    MatchNameList(s, Plus(s, Lit(s, i, "import"), Whitespace))

\* from\s+[\w.]+\s+import\s+(?:\w+(?:\s*,\s*\w+)*|\*)
MatchFromImport(s, i) ==
    LET NamesOrStar(n) == OrElse(MatchNameList(s, n), Lit(s, n, "*"))
    IN  NamesOrStar(
            Plus(s, Lit(s, Plus(s, Plus(s, Plus(s, Lit(s, i, "from"), Whitespace),
                                        DottedSet),
                                Whitespace),
                        "import"),
                 Whitespace))

\* (?:\s+as\s+\w+)? : the clause when it matches, nothing otherwise
MatchAsClause(s, i) ==
    IF i = -1 THEN -1
    ELSE OrElse(Plus(s, Plus(s, Lit(s, Plus(s, i, Whitespace), "as"), Whitespace),
                     WordSet),
                i)

\* the whole pattern at i
MatchImportAt(s, i) ==
    IF i = 0 \/ CharAt(s, i - 1) = "\n"
    THEN MatchAsClause(s, OrElse(MatchPlainImport(s, i),
                                 MatchFromImport(s, i)))
    ELSE -1

RECURSIVE FindAllImports(_, _, _)
\* the match that starts at k, then the matches after its end
ImportsFrom(s, ends, k) ==
    <<PySlice(s, k, ends[k])>> \o FindAllImports(s, ends, ends[k])

\* import_pattern.findall(code) from position i, ends[k] being the end of
\* the match that starts at k: leftmost matches, the scan resuming at the end
\* of each match
FindAllImports(s, ends, i) ==
    IF \E k \in i..(Len(s) - 1) : ends[k] # -1
    THEN ImportsFrom(s, ends,
             CHOOSE k \in i..(Len(s) - 1) :
                 ends[k] # -1 /\ \A j \in i..(k - 1) : ends[j] = -1)
    ELSE <<>>

extract_imports(code) ==
    FindAllImports(code,
                   [k \in 0..(Len(code) - 1) |-> MatchImportAt(code, k)], 0)

(***************************************************************************)
(* organize_imports_and_code                                               *)
(***************************************************************************)

RECURSIVE RemoveImports(_, _, _)
\* for imp in imports: code = code.replace(imp + '\n', '')
\*                     code = code.replace(imp, '')
RemoveImports(code, imports, i) ==
    IF i > Len(imports) THEN code
    ELSE RemoveImports(
             PyReplace(PyReplace(code, imports[i] \o "\n", ""), imports[i], ""),
             imports, i + 1)

RECURSIVE JoinImports(_, _)
\* for imp in l[i:]: new_code += imp + '\n'
JoinImports(l, i) ==
    IF i > Len(l) THEN "" ELSE l[i] \o "\n" \o JoinImports(l, i + 1)

\* the substring the patcher tests for
MainMarker == "__name__ == \"__main__\""

\* the text the patcher searches for to position the fragment
MainGuard == "if __name__ == \"__main__\":"

\* lines 171-179: the shebang line split off the text (empty when the text
\* does not start with "#!/"), shebang_end being server_code.find('\n')
ShebangLine(server_code) ==
    IF StartsWith(server_code, "#!/")
    THEN PySliceTo(server_code, PyFind(server_code, "\n") + 1) ELSE ""

\* lines 171-179: the text after its shebang line
AfterShebang(server_code) ==
    IF StartsWith(server_code, "#!/")
    THEN PySliceFrom(server_code, PyFind(server_code, "\n") + 1)
    ELSE server_code

\* lines 190-192: a blank line after the imports if not already present
WithBlankLine(new_code) ==
    IF EndsWith(new_code, "\n\n") THEN new_code ELSE new_code \o "\n"

\* lines 171-195: shebang line, sorted imports, blank line, remaining code
AssembleCode(server_code, sorted_imports) ==
    WithBlankLine(ShebangLine(server_code) \o JoinImports(sorted_imports, 1))
        \o PySliceFrom(AfterShebang(server_code),
                       SkipWhile(AfterShebang(server_code), 0, Whitespace))

\* line 206: the fragment spliced in at main_pos
InsertAt(new_code, tool_code, main_pos) ==
    PySliceTo(new_code, main_pos) \o PyStrip(tool_code) \o "\n\n"
        \o PySliceFrom(new_code, main_pos)

\* lines 197-216: the fragment before the main block, else at the end
PlaceToolCode(new_code, tool_code) ==
    IF Contains(new_code, MainMarker)
    THEN InsertAt(new_code, tool_code, PyFind(new_code, MainGuard))
    ELSE new_code \o "\n" \o PyStrip(tool_code)

\* lines 163-216 with the fragment cleaned of the imports of both texts
\* instead of its own
OrganizeStripsAllImports(server_code, tool_code, server_imports, tool_imports) ==
    PlaceToolCode(
        AssembleCode(RemoveImports(server_code, server_imports, 1),
                     SortedStrings(ToSet(server_imports \o tool_imports))),
        RemoveImports(tool_code, server_imports \o tool_imports, 1))

\* lines 163-216, given the imports extracted from both texts
OrganizeWithImports(server_code, tool_code, server_imports, tool_imports) ==
    PlaceToolCode(
        AssembleCode(RemoveImports(server_code, server_imports, 1),
                     SortedStrings(ToSet(server_imports \o tool_imports))),
        RemoveImports(tool_code, tool_imports, 1))

organize_imports_and_code(server_code, tool_code) ==
    OrganizeWithImports(server_code, tool_code,
                        extract_imports(server_code),
                        extract_imports(tool_code))

(***************************************************************************)
(* Python values.  A dict is the list of its (key, value) pairs in          *)
(* insertion order, which is the order Python iterates and json.dump        *)
(* writes; its keys are str, as are all keys the program uses.             *)
(***************************************************************************)

PyStr(s) == <<"str", s>>

PyInt(n) == <<"int", n>>

PyBool(b) == <<"bool", b>>

PyNone == <<"None">>

PyList(elems) == <<"list", elems>>

PyDict(pairs) == <<"dict", pairs>>

IsStr(v) == v[1] = "str"

IsList(v) == v[1] = "list"

IsDict(v) == v[1] = "dict"

\* position of the key k among the pairs of the dict d, 0 when absent
KeyIndex(d, k) ==
    IF \E i \in 1..Len(d[2]) : d[2][i][1] = k
    THEN CHOOSE i \in 1..Len(d[2]) : d[2][i][1] = k
    ELSE 0

\* k in d
HasKey(d, k) == KeyIndex(d, k) # 0

\* d[k], for a key d has
GetItem(d, k) == d[2][KeyIndex(d, k)][2]

\* d[k] = v: a present key keeps its place, a new key goes last
SetItem(d, k, v) ==
    IF HasKey(d, k)
    THEN PyDict([d[2] EXCEPT ![KeyIndex(d, k)] = <<k, v>>])
    ELSE PyDict(Append(d[2], <<k, v>>))

\* del d[k], for a key d has
DelItem(d, k) ==
    PyDict(SubSeq(d[2], 1, KeyIndex(d, k) - 1)
               \o SubSeq(d[2], KeyIndex(d, k) + 1, Len(d[2])))

\* len(v) for a dict or a list
PyLen(v) == Len(v[2])

\* bool(v)
Truthy(v) ==
    CASE v[1] = "None" -> FALSE
      [] v[1] = "bool" -> v[2]
      [] v[1] = "int"  -> v[2] # 0
      [] OTHER         -> Len(v[2]) > 0

(***************************************************************************)
(* json.dump(data, f, indent=2) and json.load(f), character by character.  *)
(* The texts of the model use printable ASCII and the control characters   *)
(* tab, newline, form feed and carriage return; numbers are integers.      *)
(***************************************************************************)

\* the characters a JSON string holds as they are
JsonPlain ==
    {SubSeq(AsciiOrder, i, i) : i \in 1..Len(AsciiOrder)}
        \ {"\"", "\\", "\n", "\r", "\t", "\f"}

\* c written as it is, without an escape sequence
EscapeOfRaw(c) == c

\* the escape sequence json.dump writes for c
EscapeOf(c) ==
    CASE c = "\"" -> "\\\""
      [] c = "\\" -> "\\\\"
      [] c = "\n" -> "\\n"
      [] c = "\r" -> "\\r"
      [] c = "\t" -> "\\t"
      [] c = "\f" -> "\\f"
      [] OTHER    -> c

\* the character an escape sequence \e stands for, "" for an invalid one
UnescapeOf(e) ==
    CASE e = "\"" -> "\""
      [] e = "\\" -> "\\"
      [] e = "/"  -> "/"
      [] e = "n"  -> "\n"
      [] e = "r"  -> "\r"
      [] e = "t"  -> "\t"
      [] e = "f"  -> "\f"
      [] OTHER    -> ""

RECURSIVE EncodeFrom(_, _)
\* s[i:] escaped, k being the next character that needs an escape
EncodeFrom(s, i) ==
    LET k == SkipWhile(s, i, JsonPlain)
    IN  IF k >= Len(s) THEN Between(s, i, Len(s))
        ELSE Between(s, i, k) \o EscapeOf(CharAt(s, k)) \o EncodeFrom(s, k + 1)

\* a str as a JSON string
encode_string(s) == "\"" \o EncodeFrom(s, 0) \o "\""

DigitChars == "0123456789"

DigitSet == {SubSeq(DigitChars, i, i) : i \in 1..Len(DigitChars)}

RECURSIVE NatToStr(_)
\* str(n) for n >= 0
NatToStr(n) ==
    IF n < 10 THEN SubSeq(DigitChars, n + 1, n + 1)
    ELSE NatToStr(n \div 10) \o SubSeq(DigitChars, (n % 10) + 1, (n % 10) + 1)

RECURSIVE StrToNat(_, _)
\* int(s[:n]) for a run of digits
StrToNat(s, n) ==
    IF n = 0 THEN 0
    ELSE 10 * StrToNat(s, n - 1) + PyFind(DigitChars, CharAt(s, n - 1))

RECURSIVE Indent(_)
\* the indentation of nesting level n under indent=2
Indent(n) == IF n = 0 THEN "" ELSE "  " \o Indent(n - 1)

RECURSIVE Dump(_, _)
RECURSIVE DumpElems(_, _, _)
RECURSIVE DumpPairs(_, _, _)

\* the elements of a list from the i-th on, one per line at nesting level n
DumpElems(elems, i, n) ==
    Indent(n) \o Dump(elems[i], n)
        \o (IF i = Len(elems) THEN "" ELSE ",\n" \o DumpElems(elems, i + 1, n))

\* the pairs of a dict from the i-th on, one per line at nesting level n
DumpPairs(pairs, i, n) ==
    Indent(n) \o encode_string(pairs[i][1]) \o ": " \o Dump(pairs[i][2], n)
        \o (IF i = Len(pairs) THEN "" ELSE ",\n" \o DumpPairs(pairs, i + 1, n))

\* the text json.dump(v, f, indent=2) writes for v at nesting level n
Dump(v, n) ==
    CASE v[1] = "str"  -> encode_string(v[2])
      [] v[1] = "int"  -> (IF v[2] < 0 THEN "-" \o NatToStr(-v[2]) ELSE NatToStr(v[2]))
      [] v[1] = "bool" -> (IF v[2] THEN "true" ELSE "false")
      [] v[1] = "None" -> "null"
      [] v[1] = "list" ->
            (IF Len(v[2]) = 0 THEN "[]"
             ELSE "[\n" \o DumpElems(v[2], 1, n + 1) \o "\n" \o Indent(n) \o "]")
      [] v[1] = "dict" ->
            (IF Len(v[2]) = 0 THEN "{}"
             ELSE "{\n" \o DumpPairs(v[2], 1, n + 1) \o "\n" \o Indent(n) \o "}")

json_dump(data) == Dump(data, 0)

\* index of the first character at or after i that is not JSON whitespace
SkipJsonWs(s, i) == SkipWhile(s, i, {" ", "\t", "\n", "\r"})

\* a decoding step: the value read and the index just after it; pos = -1
\* stands for json.JSONDecodeError
Decoded(v, p) == [pos |-> p, val |-> v]

DecodeError == [pos |-> -1, val |-> PyNone]

RECURSIVE StringBody(_, _, _)
\* the rest of a JSON string whose opening quote is before i, acc being what
\* was decoded so far: at the next character that is not held as it is, the
\* closing quote ends the string, a backslash starts an escape sequence, a
\* raw control character or the end of the text is an error
StringBody(s, i, acc) ==
    LET k == SkipWhile(s, i, JsonPlain)
    IN  CASE CharAt(s, k) = "\"" -> Decoded(PyStr(acc \o Between(s, i, k)), k + 1)
          [] CharAt(s, k) = "\\" /\ UnescapeOf(CharAt(s, k + 1)) # "" ->
                StringBody(s, k + 2,
                           acc \o Between(s, i, k) \o UnescapeOf(CharAt(s, k + 1)))
          [] OTHER -> DecodeError

\* -?(0|[1-9][0-9]*) at i
ParseNumber(s, i) ==
    LET b == IF CharAt(s, i) = "-" THEN i + 1 ELSE i
        e == IF CharAt(s, b) = "0" THEN b + 1 ELSE SkipWhile(s, b, DigitSet)
    IN  IF e = b THEN DecodeError
        ELSE Decoded(PyInt(IF b = i THEN StrToNat(Between(s, b, e), e - b)
                           ELSE 0 - StrToNat(Between(s, b, e), e - b)), e)

RECURSIVE ParseValue(_, _)
RECURSIVE ParseMembers(_, _, _)
RECURSIVE ParseElements(_, _, _)

\* the members of an object from i, the first token of a member: a key, ':'
\* and a value, then '}' ends the object and ',' must be followed by the
\* next member; a key met again takes the later value
ParseMembers(s, i, acc) ==
    LET key == StringBody(s, i + 1, "")
        c == SkipJsonWs(s, key.pos)
        v == ParseValue(s, SkipJsonWs(s, c + 1))
        e == SkipJsonWs(s, v.pos)
    IN  IF CharAt(s, i) # "\"" \/ key.pos = -1 THEN DecodeError
        ELSE IF CharAt(s, c) # ":" \/ v.pos = -1 THEN DecodeError
        ELSE IF CharAt(s, e) = "}"
        THEN Decoded(SetItem(acc, key.val[2], v.val), e + 1)
        ELSE IF CharAt(s, e) = ","
        THEN ParseMembers(s, SkipJsonWs(s, e + 1),
                          SetItem(acc, key.val[2], v.val))
        ELSE DecodeError

\* the elements of an array from i, the first token of an element: ']' ends
\* the array, ',' must be followed by the next element
ParseElements(s, i, acc) ==
    LET v == ParseValue(s, i)
        e == SkipJsonWs(s, v.pos)
    IN  IF v.pos = -1 THEN DecodeError
        ELSE IF CharAt(s, e) = "]" THEN Decoded(PyList(Append(acc, v.val)), e + 1)
        ELSE IF CharAt(s, e) = ","
        THEN ParseElements(s, SkipJsonWs(s, e + 1), Append(acc, v.val))
        ELSE DecodeError

\* a JSON value whose first character is s[i], t being the first token
\* inside an object or an array
ParseValue(s, i) ==
    LET t == SkipJsonWs(s, i + 1)
    IN  CASE CharAt(s, i) = "\"" -> StringBody(s, i + 1, "")
          [] CharAt(s, i) = "{" ->
                (IF CharAt(s, t) = "}" THEN Decoded(PyDict(<<>>), t + 1)
                 ELSE ParseMembers(s, t, PyDict(<<>>)))
          [] CharAt(s, i) = "[" ->
                (IF CharAt(s, t) = "]" THEN Decoded(PyList(<<>>), t + 1)
                 ELSE ParseElements(s, t, <<>>))
          [] CharAt(s, i) \in DigitSet \cup {"-"} -> ParseNumber(s, i)
          [] StartsWithAt(s, "true", i) -> Decoded(PyBool(TRUE), i + 4)
          [] StartsWithAt(s, "false", i) -> Decoded(PyBool(FALSE), i + 5)
          [] StartsWithAt(s, "null", i) -> Decoded(PyNone, i + 4)
          [] OTHER -> DecodeError

\* json.load on the text s: one value with nothing but whitespace after it
json_load(s) ==
    LET v == ParseValue(s, SkipJsonWs(s, 0))
    IN  IF v.pos # -1 /\ SkipJsonWs(s, v.pos) = Len(s) THEN v ELSE DecodeError

(***************************************************************************)
(* Files.  A file is absent, or holds bytes: bytes that are UTF-8 are      *)
(* modelled by the text they encode, bytes that are not by utf8 = FALSE.   *)
(***************************************************************************)

NoFile == [exists |-> FALSE, utf8 |-> TRUE, text |-> ""]

TextFile(t) == [exists |-> TRUE, utf8 |-> TRUE, text |-> t]

BinaryFile == [exists |-> TRUE, utf8 |-> FALSE, text |-> ""]

\* the outcome of a step that may raise: raised is the name of the exception,
\* "" when the step returned val
Value(v) == [raised |-> "", val |-> v]

Error(e) == [raised |-> e, val |-> PyNone]

\* the shared body of load_database and load_claude_config: a missing file
\* gives the default; open(path, 'r') decodes the bytes of the file, which
\* raises UnicodeDecodeError, an exception the except clause does not name,
\* when they are not UTF-8; json.JSONDecodeError gives the default
LoadJsonFile(file, default) ==
    LET Loaded(doc) == IF doc.pos = -1 THEN Value(default) ELSE Value(doc.val)
    IN  IF ~file.exists THEN Value(default)
        ELSE IF ~file.utf8 THEN Error("UnicodeDecodeError")
        ELSE Loaded(json_load(file.text))

\* the default is {"servers": {}}
load_database(file) ==
    LoadJsonFile(file, PyDict(<< <<"servers", PyDict(<<>>)>> >>))

\* the file save_database(data) leaves
save_database(data) == TextFile(json_dump(data))

\* the default is {"mcpServers": {}}
load_claude_config(file) ==
    LoadJsonFile(file, PyDict(<< <<"mcpServers", PyDict(<<>>)>> >>))

\* the file save_claude_config(config) leaves
save_claude_config(config) == TextFile(json_dump(config))

(***************************************************************************)
(* Paths, directories and server files.  A world w is the state the        *)
(* operations act on: the registry file db, the Claude configuration file  *)
(* config, the files and dirs under SERVERS_DIR, the number uuids of       *)
(* identifiers generated, the packages installed, and the outcome of the   *)
(* call: the exception raised ("" for none) and the value ret returned.    *)
(***************************************************************************)

SERVERS_DIR == "/Users/meet/Documents/python/projects/mcp/vibecodemcp/mcp-servers/"

\* os.path.join(a, b)
path_join(a, b) ==
    IF StartsWith(b, "/") THEN b
    ELSE IF a = "" \/ EndsWith(a, "/") THEN a \o b
    ELSE a \o "/" \o b

\* the path p and the directories above it
Ancestors(p) ==
    {PySliceTo(p, k) : k \in {j \in 1..(Len(p) - 1) : CharAt(p, j) = "/"}}
        \cup {p}

\* p is the directory d or lies inside it
IsUnder(p, d) == p = d \/ StartsWith(p, d \o "/")

\* os.path.exists(p)
path_exists(w, p) == p \in w.dirs \/ p \in DOMAIN w.files

\* os.makedirs(p, exist_ok=True) fails when p or a directory above it is a
\* file
MakedirsFails(w, p) == \E a \in Ancestors(p) : a \in DOMAIN w.files

\* the directories after os.makedirs(p, exist_ok=True)
makedirs(w, p) == w.dirs \cup Ancestors(p)

\* os.path.dirname(p) for a path with a directory part
dirname(p) ==
    PySliceTo(p, CHOOSE k \in 0..(Len(p) - 1) :
                     /\ CharAt(p, k) = "/"
                     /\ \A j \in (k + 1)..(Len(p) - 1) : CharAt(p, j) # "/")

\* the exception open(p, 'w') raises, "" when there is none: p is a
\* directory, or the directory of p does not exist
OpenForWriteError(w, p) ==
    IF p \in w.dirs THEN "IsADirectoryError"
    ELSE IF dirname(p) \notin w.dirs THEN "FileNotFoundError"
    ELSE ""

\* the files after open(p, 'w') and f.write(text): a new file is not
\* executable, an existing one keeps its mode
write_file(w, p, text) ==
    [q \in DOMAIN w.files \cup {p} |->
        IF q = p
        THEN [text |-> text,
              executable |-> p \in DOMAIN w.files /\ w.files[p].executable]
        ELSE w.files[q]]

\* the files after os.chmod(p, 0o755)
chmod_executable(fs, p) == [fs EXCEPT ![p].executable = TRUE]

\* the files after shutil.rmtree(d)
rmtree_files(w, d) ==
    [q \in {f \in DOMAIN w.files : ~IsUnder(f, d)} |-> w.files[q]]

\* the directories after shutil.rmtree(d)
rmtree_dirs(w, d) == {x \in w.dirs : ~IsUnder(x, d)}

\* str(uuid.uuid4()) at its n-th call, every call giving a new identifier
uuid4(n) == "uuid-" \o NatToStr(n)

\* a call that saves the registry it loaded before it raises e
RaiseAfterSaving(w, e) ==
    [w EXCEPT !.raised = e, !.ret = PyNone, !.db = save_database(w.loaded.val)]

\* a call that raises e, whatever it changed before staying changed
Raise(w, e) == [w EXCEPT !.raised = e, !.ret = PyNone]

\* a call that returns v
Return(w, v) == [w EXCEPT !.raised = "", !.ret = v]

\* the exception using db["servers"] as a dict raises, "" when there is none;
\* e is what the use raises on a value that is not a dict
ServersError(db, e) ==
    IF ~IsDict(db) THEN "TypeError"
    ELSE IF ~HasKey(db, "servers") THEN "KeyError"
    ELSE IF ~IsDict(GetItem(db, "servers")) THEN e
    ELSE ""

\* the loop  for sid, data in db["servers"].items(): if data["name"] == name
\* stops at this record: it matches, or reading its name raises
StopsAt(data, name) ==
    \/ ~IsDict(data)
    \/ ~HasKey(data, "name")
    \/ GetItem(data, "name") = PyStr(name)

\* position of the first record the loop stops at, 0 when it runs to the end
FirstNamed(servers, name) ==
    IF \E i \in 1..PyLen(servers) : StopsAt(servers[2][i][2], name)
    THEN CHOOSE i \in 1..PyLen(servers) :
             /\ StopsAt(servers[2][i][2], name)
             /\ \A j \in 1..(i - 1) : ~StopsAt(servers[2][j][2], name)
    ELSE 0

\* the exception reading data["name"] raises, "" when there is none
NameError(data) ==
    IF ~IsDict(data) THEN "TypeError"
    ELSE IF ~HasKey(data, "name") THEN "KeyError"
    ELSE ""

\* the key and the value of the i-th pair of a dict; of no pair when i = 0
KeyAt(d, i) == IF i = 0 THEN "" ELSE d[2][i][1]

ValueAt(d, i) == IF i = 0 THEN PyNone ELSE d[2][i][2]

(***************************************************************************)
(* create_server                                                           *)
(***************************************************************************)

\* the text create_server writes to server.py
ServerTemplate(project_name) ==
    "#!/usr/bin/env python3\n"
    \o "from mcp.server.fastmcp import FastMCP, Context\n"
    \o "                \n"
    \o "# Create an MCP server\n"
    \o "mcp = FastMCP(\"" \o project_name \o "\")\n"
    \o "if __name__ == \"__main__\":\n"
    \o "    try:\n"
    \o "        # Run the MCP server\n"
    \o "        mcp.run()\n"
    \o "    except KeyboardInterrupt:\n"
    \o "        print(\"Server stopped by user\")\n"

\* a server_entry that counts one tool
ServerEntryOneTool(server_id, project_name, description, server_location) ==
    PyDict(<< <<"id", PyStr(server_id)>>,
              <<"name", PyStr(project_name)>>,
              <<"description", PyStr(description)>>,
              <<"location", PyStr(server_location)>>,
              <<"tool_count", PyInt(1)>>,
              <<"tools", PyDict(<<>>)>> >>)

\* server_entry
ServerEntry(server_id, project_name, description, server_location) ==
    PyDict(<< <<"id", PyStr(server_id)>>,
              <<"name", PyStr(project_name)>>,
              <<"description", PyStr(description)>>,
              <<"location", PyStr(server_location)>>,
              <<"tool_count", PyInt(0)>>,
              <<"tools", PyDict(<<>>)>> >>)

UpperChars == "ABCDEFGHIJKLMNOPQRSTUVWXYZ"

LowerChars == "abcdefghijklmnopqrstuvwxyz"

\* the characters str.lower() leaves as they are
NotUpper ==
    {SubSeq(AsciiOrder, i, i) : i \in 1..Len(AsciiOrder)}
        \ {SubSeq(UpperChars, i, i) : i \in 1..Len(UpperChars)}

RECURSIVE LowerFrom(_, _)
\* s[i:].lower(): the text up to the next upper-case letter k as it is, the
\* letter in lower case, and the rest likewise
LowerFrom(s, i) ==
    LET k == SkipWhile(s, i, NotUpper)
    IN  IF k >= Len(s) THEN Between(s, i, Len(s))
        ELSE Between(s, i, k)
                 \o CharAt(LowerChars, PyFind(UpperChars, CharAt(s, k)))
                 \o LowerFrom(s, k + 1)

\* a key that keeps the case of the name: project_name.replace(" ", "_")
ConfigNameCased(project_name) == PyReplace(project_name, " ", "_")

\* the key of a server in the Claude configuration:
\* project_name.lower().replace(" ", "_")
ConfigName(project_name) == PyReplace(LowerFrom(project_name, 0), " ", "_")

\* the entry of a server in the Claude configuration
ConfigEntry(server_location) ==
    PyDict(<< <<"command", PyStr("/Users/meet/.local/bin/uv")>>,
              <<"args", PyList(<< PyStr("run"), PyStr("--directory"),
                                  PyStr(server_location),
                                  PyStr("server.py") >>)>> >>)

\* d with d[k] = {} when k is not in d
WithDefault(d, k) == IF HasKey(d, k) THEN d ELSE SetItem(d, k, PyDict(<<>>))

\* d[k][k2] = v
SetItem2(d, k, k2, v) == SetItem(d, k, SetItem(GetItem(d, k), k2, v))

\* create_server, db and claude_config being what load_database and
\* load_claude_config give at lines 311 and 316: made is the world once the
\* directory and the file exist, stored the world once the registry is saved
create_server(w, project_name, description) ==
    LET Loaded(db, claude_config) ==
            LET server_id == uuid4(w.uuids + 1)
                server_location == path_join(SERVERS_DIR, project_name)
                server_file == path_join(server_location, "server.py")
                drawn == [w EXCEPT !.uuids = w.uuids + 1]
                made == [drawn EXCEPT
                            !.dirs = makedirs(w, server_location),
                            !.files = chmod_executable(
                                write_file(w, server_file, ServerTemplate(project_name)),
                                server_file)]
                server_entry == ServerEntry(server_id, project_name, description,
                                            server_location)
                stored == [made EXCEPT !.db = save_database(
                              SetItem2(db.val, "servers", server_id, server_entry))]
                config == WithDefault(claude_config.val, "mcpServers")
            IN  IF MakedirsFails(w, server_location) THEN Raise(drawn, "FileExistsError")
                ELSE IF server_file \in w.dirs
                THEN Raise([drawn EXCEPT !.dirs = makedirs(w, server_location)],
                           "IsADirectoryError")
                ELSE IF db.raised # "" THEN Raise(made, db.raised)
                ELSE IF ServersError(db.val, "TypeError") # ""
                THEN Raise(made, ServersError(db.val, "TypeError"))
                ELSE IF claude_config.raised # "" THEN Raise(stored, claude_config.raised)
                ELSE IF ~IsDict(claude_config.val) THEN Raise(stored, "TypeError")
                ELSE IF ~IsDict(GetItem(config, "mcpServers")) THEN Raise(stored, "TypeError")
                ELSE Return([stored EXCEPT !.config = save_claude_config(
                                 SetItem2(config, "mcpServers", ConfigName(project_name),
                                          ConfigEntry(server_location)))],
                            server_entry)
    IN  Loaded(w.loaded, load_claude_config(w.config))

(***************************************************************************)
(* list_servers                                                            *)
(***************************************************************************)

\* the keys list_servers reads from a record
ListedKeys == <<"name", "description", "location", "tool_count">>

\* an entry of list_servers without its id
ServerInfoNoId(server_id, server_data) ==
    PyDict([i \in 1..Len(ListedKeys) |->
               <<ListedKeys[i], GetItem(server_data, ListedKeys[i])>>])

\* the entry list_servers builds for a record
ServerInfo(server_id, server_data) ==
    PyDict(<< <<"id", PyStr(server_id)>> >>
           \o [i \in 1..Len(ListedKeys) |->
                  <<ListedKeys[i], GetItem(server_data, ListedKeys[i])>>])

\* list_servers, db being what load_database gives: the loop raises at the
\* first record it cannot read, TypeError for a record that is not a dict and
\* KeyError for a key the record lacks
list_servers(w) ==
    LET Loaded(db) ==
            LET servers == GetItem(db.val, "servers")
                unread == {i \in 1..PyLen(servers) :
                              \/ ~IsDict(servers[2][i][2])
                              \/ \E j \in 1..Len(ListedKeys) :
                                     ~HasKey(servers[2][i][2], ListedKeys[j])}
                first == CHOOSE i \in unread : \A j \in unread : i <= j
            IN  IF db.raised # "" THEN Raise(w, db.raised)
                ELSE IF ServersError(db.val, "AttributeError") # ""
                THEN Raise(w, ServersError(db.val, "AttributeError"))
                ELSE IF unread # {}
                THEN Raise(w, IF IsDict(servers[2][first][2]) THEN "KeyError"
                              ELSE "TypeError")
                ELSE Return(w, PyDict(<< <<"servers",
                         PyList([i \in 1..PyLen(servers) |->
                                    ServerInfo(servers[2][i][1], servers[2][i][2])])>> >>))
    IN  Loaded(w.loaded)

(***************************************************************************)
(* remove_server                                                           *)
(***************************************************************************)

\* the configuration entry points to the server at server_location:
\* "args" in config and len(config["args"]) >= 3 and
\* config["args"][-2] == server_location
PointsTo(config, server_location) ==
    /\ IsDict(config)
    /\ HasKey(config, "args")
    /\ IsList(GetItem(config, "args"))
    /\ PyLen(GetItem(config, "args")) >= 3
    /\ GetItem(config, "args")[2][PyLen(GetItem(config, "args")) - 1]
           = server_location

\* position of the first entry of mcpServers that points to the location, 0
\* when none does
FirstPointing(servers, server_location) ==
    IF \E i \in 1..PyLen(servers) : PointsTo(servers[2][i][2], server_location)
    THEN CHOOSE i \in 1..PyLen(servers) :
             /\ PointsTo(servers[2][i][2], server_location)
             /\ \A j \in 1..(i - 1) :
                    ~PointsTo(servers[2][j][2], server_location)
    ELSE 0

\* a name that no record has answered by an error after the registry is
\* written anew, empty
RemoveMissingWiping(w, server_name) ==
    Raise([w EXCEPT !.db = save_database(PyDict(<< <<"servers", PyDict(<<>>)>> >>))],
          "ValueError")

\* lines 388-389: no record has the name
RemoveMissing(w, server_name) == Raise(w, "ValueError")

\* remove_server, db and claude_config being what load_database and
\* load_claude_config give at lines 376 and 401: i is where the loop over the
\* records stopped, removed the world once the directory is gone and the
\* registry is saved, j the entry of the configuration that points to the
\* server
remove_server(w, server_name) ==
    LET Loaded(db, claude_config) ==
            LET servers == GetItem(db.val, "servers")
                i == FirstNamed(servers, server_name)
                server_id == KeyAt(servers, i)
                server_data == ValueAt(servers, i)
                server_location == GetItem(server_data, "location")
                removed == [w EXCEPT
                               !.files = rmtree_files(w, server_location[2]),
                               !.dirs = rmtree_dirs(w, server_location[2]),
                               !.db = save_database(
                                   SetItem(db.val, "servers", DelItem(servers, server_id)))]
                mcpServers == GetItem(claude_config.val, "mcpServers")
                j == FirstPointing(mcpServers, server_location)
                result == PyDict(<< <<"removed", server_data>> >>)
            IN  IF db.raised # "" THEN Raise(w, db.raised)
                ELSE IF ServersError(db.val, "AttributeError") # ""
                THEN Raise(w, ServersError(db.val, "AttributeError"))
                ELSE IF i # 0 /\ NameError(server_data) # ""
                THEN Raise(w, NameError(server_data))
                ELSE IF i = 0 \/ server_id = "" THEN RemoveMissing(w, server_name)
                ELSE IF ~HasKey(server_data, "location") THEN Raise(w, "KeyError")
                ELSE IF ~IsStr(server_location) THEN Raise(w, "TypeError")
                ELSE IF server_location[2] \in DOMAIN w.files
                THEN Raise(w, "NotADirectoryError")
                ELSE IF claude_config.raised # "" THEN Raise(removed, claude_config.raised)
                ELSE IF ~IsDict(claude_config.val) /\ ~IsList(claude_config.val)
                        /\ ~IsStr(claude_config.val)
                THEN Raise(removed, "TypeError")
                ELSE IF ~IsDict(claude_config.val) \/ ~HasKey(claude_config.val, "mcpServers")
                THEN Return(removed, result)
                ELSE IF ~IsDict(mcpServers) THEN Raise(removed, "AttributeError")
                ELSE Return([removed EXCEPT !.config = save_claude_config(
                                 IF j = 0 THEN claude_config.val
                                 ELSE SetItem(claude_config.val, "mcpServers",
                                              DelItem(mcpServers, mcpServers[2][j][1])))],
                            result)
    IN  Loaded(w.loaded, load_claude_config(w.config))

(***************************************************************************)
(* add_tool_to_server                                                      *)
(***************************************************************************)

RECURSIVE SplitFrom(_, _, _)
\* s[i:].split(sep), k being the next occurrence of sep
SplitFrom(s, sep, i) ==
    LET k == FindFrom(s, sep, i)
    IN  IF k = -1 THEN <<PySliceFrom(s, i)>>
        ELSE <<PySlice(s, i, k)>> \o SplitFrom(s, sep, k + Len(sep))

\* s.split(sep)
PySplit(s, sep) == SplitFrom(s, sep, 0)

\* {"name": ..., "type": ...} for a stripped part of params that has a ':',
\* split at its first ':'
ParamEntry(param) ==
    PyDict(<< <<"name", PyStr(PyStrip(PySliceTo(param, PyFind(param, ":"))))>>,
              <<"type",
                PyStr(PyStrip(PySliceFrom(param, PyFind(param, ":") + 1)))>> >>)

RECURSIVE ParamsStr(_, _)
\* ", ".join(name: type) over parameters[i:]
ParamsStr(parameters, i) ==
    IF i > Len(parameters) THEN ""
    ELSE GetItem(parameters[i], "name")[2] \o ": "
             \o GetItem(parameters[i], "type")[2]
             \o (IF i = Len(parameters) THEN ""
                 ELSE ", " \o ParamsStr(parameters, i + 1))

\* tool_code_template
ToolTemplate(tool_name, params_str, tool_description, tool_code) ==
    "\n# Tool: " \o tool_name \o "\n"
    \o "@mcp.tool()\n"
    \o "def " \o tool_name \o "(" \o params_str \o ") -> str:\n"
    \o "    \"\"\"\n"
    \o "    " \o tool_description \o "\n"
    \o "    \"\"\"\n"
    \o "    " \o tool_code \o "\n"

\* the packages extract_packages_from_imports never reports
KnownPackages ==
    {"mcp", "__future__", "typing", "os", "sys", "json", "uuid", "shutil",
     "re", "subprocess", "importlib", "pathlib", "collections", "functools",
     "datetime", "random", "math", "time", "contextlib", "io", "tempfile",
     "unittest"}

\* the package an import statement names: match.group(1).split('.')[0] for
\* the run of [\w.] at i, after "from" or "import" and whitespace; "" marks a
\* statement the pattern does not match
PackageOf(stmt) ==
    LET i == Plus(stmt, Lit(stmt, 0, IF StartsWith(stmt, "from ") THEN "from"
                                     ELSE "import"), Whitespace)
    IN  IF i = -1 \/ Plus(stmt, i, DottedSet) = -1 THEN ""
        ELSE Between(stmt, i, SkipWhile(stmt, i, WordSet))

\* the packages to install, as a set
extract_packages_from_imports(imports) ==
    {PackageOf(imports[i]) : i \in 1..Len(imports)} \ (KnownPackages \cup {""})

\* the packages present after install_packages(packages): a package that is
\* missing is installed when pip succeeds, a failure of pip is logged
install_packages(installed, packages, pip_ok) ==
    IF pip_ok THEN installed \cup packages ELSE installed

\* a failure of pip for a missing package that is not caught
InstallErrorUncaught(installed, packages, pip_ok) ==
    IF ~pip_ok /\ packages \ installed # {} THEN "CalledProcessError" ELSE ""

\* the exception install_packages(packages) raises, "" for none: the
\* CalledProcessError of a failing pip is caught and logged at lines 104-105
InstallError(installed, packages, pip_ok) == ""

\* the tool record stored in the registry and returned
ToolEntry(tool_id, tool_name, tool_description, parameters) ==
    PyDict(<< <<"id", PyStr(tool_id)>>,
              <<"name", PyStr(tool_name)>>,
              <<"description", PyStr(tool_description)>>,
              <<"parameters", PyList(parameters)>> >>)

\* the server record with the tool stored under tool_id and tool_count left
\* as it was
WithToolUncounted(server_data, tool_id, tool_entry) ==
    SetItem2(WithDefault(server_data, "tools"), "tools", tool_id, tool_entry)

\* lines 577-588: the server record with the tool stored under tool_id and
\* tool_count set to the number of its tools
WithTool(server_data, tool_id, tool_entry) ==
    LET stored == SetItem2(WithDefault(server_data, "tools"), "tools", tool_id,
                           tool_entry)
    IN  SetItem(stored, "tool_count", PyInt(PyLen(GetItem(stored, "tools"))))

\* add_tool_to_server; server_code is None or a str, pip_ok tells whether
\* pip, if it is run, succeeds.  Loaded is lines 500-553, db being what
\* load_database gives in find_server_by_name, and at line 573 too, the
\* registry file not being written in between: i is where the loop of
\* find_server_by_name stopped, parts are the stripped parts of params.
\* Patched is lines 557-602, packages_to_install being what
\* extract_packages_from_imports gives and modified_code what
\* organize_imports_and_code gives: packed is the world once the packages
\* are installed, drawn the world once the server file is written and the
\* tool has its identifier
add_tool_to_server(w, server_name, tool_name, tool_description, tool_code, params, server_code, pip_ok) ==
    LET Patched(server_id, server_data, server_file_path, parameters, packages_to_install, modified_code, db) ==
                LET packed == [w EXCEPT !.installed =
                                  install_packages(w.installed, packages_to_install, pip_ok)]
                    drawn == [packed EXCEPT
                                 !.files = write_file(w, server_file_path, modified_code),
                                 !.uuids = w.uuids + 1]
                    tool_entry == ToolEntry(uuid4(w.uuids + 1), tool_name, tool_description,
                                            parameters)
                IN  IF InstallError(w.installed, packages_to_install, pip_ok) # ""
                    THEN Raise(w, InstallError(w.installed, packages_to_install, pip_ok))
                    ELSE IF OpenForWriteError(w, server_file_path) # ""
                    THEN Raise(packed, OpenForWriteError(w, server_file_path))
                    ELSE IF ~IsDict(GetItem(WithDefault(server_data, "tools"), "tools"))
                    THEN Raise(drawn, "TypeError")
                    ELSE Return([drawn EXCEPT !.db = save_database(
                                     SetItem2(db.val, "servers", server_id,
                                              WithTool(server_data, uuid4(w.uuids + 1),
                                                       tool_entry)))],
                                PyDict(<< <<"server", PyStr(server_name)>>,
                                          <<"tool", tool_entry>> >>))
        Loaded(db) ==
                LET servers == GetItem(db.val, "servers")
                    i == FirstNamed(servers, server_name)
                    server_data == ValueAt(servers, i)
                    server_file_path == path_join(GetItem(server_data, "location")[2], "server.py")
                    split == PySplit(params, ",")
                    parts == IF params = "" THEN <<>>
                             ELSE [k \in 1..Len(split) |-> PyStrip(split[k])]
                    parameters == [k \in 1..Len(parts) |-> ParamEntry(parts[k])]
                    tool_code_template == ToolTemplate(tool_name, ParamsStr(parameters, 1),
                                                       tool_description, tool_code)
                IN  IF db.raised # "" THEN Raise(w, db.raised)
                    ELSE IF ServersError(db.val, "AttributeError") # ""
                    THEN Raise(w, ServersError(db.val, "AttributeError"))
                    ELSE IF i = 0 THEN Raise(w, "ValueError")
                    ELSE IF NameError(server_data) # "" THEN Raise(w, NameError(server_data))
                    ELSE IF ~HasKey(server_data, "location") THEN Raise(w, "KeyError")
                    ELSE IF ~IsStr(GetItem(server_data, "location")) THEN Raise(w, "TypeError")
                    ELSE IF server_code = PyNone /\ ~path_exists(w, server_file_path)
                    THEN Raise(w, "ValueError")
                    ELSE IF server_code = PyNone /\ server_file_path \in w.dirs
                    THEN Raise(w, "IsADirectoryError")
                    ELSE IF \E k \in 1..Len(parts) : ~Contains(parts[k], ":")
                    THEN Raise(w, "ValueError")
                    ELSE Patched(KeyAt(servers, i), server_data, server_file_path,
                                    parameters,
                                    extract_packages_from_imports(
                                        extract_imports(tool_code_template)),
                                    organize_imports_and_code(
                                        IF server_code = PyNone
                                        THEN w.files[server_file_path].text ELSE server_code[2],
                                        tool_code_template),
                                    db)
    IN  Loaded(w.loaded)

(***************************************************************************)
(* list_tools (src/modified_server.py)                                     *)
(***************************************************************************)

\* d.get(k, default)
GetOr(d, k, default) == IF HasKey(d, k) THEN GetItem(d, k) ELSE default

\* the parameters list_tools reads from a registered tool: none when the
\* tool has no "parameters" or an empty one
ToolParams(tool_info) ==
    IF HasKey(tool_info, "parameters") /\ Truthy(GetItem(tool_info, "parameters"))
    THEN GetItem(tool_info, "parameters") ELSE PyList(<<>>)

\* lines 269-284: the entry for the pair (tool_name, tool_info) of
\* server_data["tools"]; its name is the key of the pair
RegisteredTool(tool_name, tool_info) ==
    PyDict(<< <<"name", PyStr(tool_name)>>,
              <<"description",
                GetOr(tool_info, "description", PyStr("No description available"))>>,
              <<"parameters",
                PyList([i \in 1..PyLen(ToolParams(tool_info)) |->
                   PyDict(<< <<"name", GetOr(ToolParams(tool_info)[2][i],
                                             "name", PyStr(""))>>,
                             <<"type", GetOr(ToolParams(tool_info)[2][i],
                                             "type", PyStr(""))>>,
                             <<"description", GetOr(ToolParams(tool_info)[2][i],
                                                    "description", PyStr(""))>> >>)])>> >>)

\* def\s+(\w+)\s*\( at i: the index just after '(' , -1 when it does not match
DefEnd(s, i) ==
    Lit(s, Star(s, Plus(s, Plus(s, Lit(s, i, "def"), Whitespace), WordSet),
                Whitespace), "(")

RECURSIVE FindDef(_, _)
\* the first index >= i where def\s+(\w+)\s*\( matches, -1 when there is
\* none; k is the next occurrence of "def"
FindDef(s, i) ==
    LET k == FindFrom(s, "def", i)
    IN  IF k = -1 THEN -1 ELSE IF DefEnd(s, k) # -1 THEN k ELSE FindDef(s, k + 1)

\* the entry for a stripped parameter read from the code, one that has a ':';
\* its type is the text after the first ':', up to the next ':' and up to an
\* '='
CodeParam(param) ==
    LET param_parts == PySplit(param, ":")
    IN  PyDict(<< <<"name", PyStr(PyStrip(param_parts[1]))>>,
                  <<"type", PyStr(IF Contains(PyStrip(param_parts[2]), "=")
                                  THEN PyStrip(PySplit(PyStrip(param_parts[2]), "=")[1])
                                  ELSE PyStrip(param_parts[2]))>>,
                  <<"description", PyStr("Parameter extracted from code")>> >>)

RECURSIVE CodeParams(_, _)
\* params_info over param_list[i:]: the parameters that have a ':'
CodeParams(param_list, i) ==
    IF i > Len(param_list) THEN <<>>
    ELSE (IF Contains(param_list[i], ":")
          THEN <<CodeParam(PyStrip(param_list[i]))>> ELSE <<>>)
             \o CodeParams(param_list, i + 1)

RECURSIVE CodeTools(_, _)
\* re.findall(tool_pattern, server_code, re.DOTALL) from i on, each match
\* turned into its entry (lines 299-329).  A match starts at the next
\* "@mcp.tool()", at a; .*?def takes the text up to the next def the pattern
\* matches at, d; (.*?)\) the text from p, just after '(', up to the next
\* ')', at r; .*?"""(.*?)""" the next two occurrences of three quotes, at q1
\* and q2
CodeTools(s, i) ==
    LET a == FindFrom(s, "@mcp.tool()", i)
        d == FindDef(s, a + Len("@mcp.tool()"))
        n == Plus(s, Lit(s, d, "def"), Whitespace)
        p == DefEnd(s, d)
        r == FindFrom(s, ")", p)
        q1 == FindFrom(s, "\"\"\"", r + 1)
        q2 == FindFrom(s, "\"\"\"", q1 + 3)
        params_str == Between(s, p, r)
        docstring == PyStrip(Between(s, q1 + 3, q2))
    IN  IF a = -1 \/ d = -1 \/ r = -1 \/ q1 = -1 \/ q2 = -1 THEN <<>>
        ELSE << PyDict(<< <<"name", PyStr(Between(s, n, Plus(s, n, WordSet)))>>,
                          <<"description",
                            PyStr(PyStrip(PySplit(docstring, "\n")[1]))>>,
                          <<"parameters",
                            PyList(IF PyStrip(params_str) = "" THEN <<>>
                                   ELSE CodeParams(PySplit(params_str, ","), 1))>> >>) >>
                 \o CodeTools(s, q2 + 3)

\* list_tools, db being what load_database gives: i is where the loop over
\* the records stopped; tools_list is read from the registry, and from the
\* server file when the registry gives none and the file exists
list_tools(w, server_name) ==
    LET Result(tools_list) ==
            Return(w, PyDict(<< <<"server_name", PyStr(server_name)>>,
                                <<"tools_count", PyInt(Len(tools_list))>>,
                                <<"tools", PyList(tools_list)>> >>))
        Loaded(db) ==
                LET servers == GetItem(db.val, "servers")
                    i == FirstNamed(servers, server_name)
                    server_id == KeyAt(servers, i)
                    server_data == ValueAt(servers, i)
                    tools == GetOr(server_data, "tools", PyDict(<<>>))
                    server_file_path == path_join(GetItem(server_data, "location")[2], "server.py")
                IN  IF db.raised # "" THEN Raise(w, db.raised)
                    ELSE IF ServersError(db.val, "AttributeError") # ""
                    THEN Raise(w, ServersError(db.val, "AttributeError"))
                    ELSE IF i # 0 /\ NameError(server_data) # ""
                    THEN Raise(w, NameError(server_data))
                    ELSE IF i = 0 \/ server_id = "" THEN Raise(w, "ValueError")
                    ELSE IF Truthy(tools) /\ ~IsDict(tools) THEN Raise(w, "AttributeError")
                    ELSE IF Truthy(tools) /\ \E k \in 1..PyLen(tools) :
                                \/ ~IsDict(tools[2][k][2])
                                \/ ~IsList(ToolParams(tools[2][k][2]))
                                \/ \E m \in 1..PyLen(ToolParams(tools[2][k][2])) :
                                       ~IsDict(ToolParams(tools[2][k][2])[2][m])
                    THEN Raise(w, "TypeError")
                    ELSE IF ~Truthy(tools) /\ ~HasKey(server_data, "location")
                    THEN Raise(w, "KeyError")
                    ELSE IF ~Truthy(tools) /\ ~IsStr(GetItem(server_data, "location"))
                    THEN Raise(w, "TypeError")
                    ELSE IF ~Truthy(tools) /\ server_file_path \in w.dirs
                    THEN Raise(w, "IsADirectoryError")
                    ELSE Result(
                        IF Truthy(tools)
                        THEN [k \in 1..PyLen(tools) |-> RegisteredTool(tools[2][k][1], tools[2][k][2])]
                        ELSE IF server_file_path \in DOMAIN w.files
                        THEN CodeTools(w.files[server_file_path].text, 0)
                        ELSE <<>>)
    IN  Loaded(w.loaded)

(***************************************************************************)
(* remove_tool (src/modified_server.py)                                    *)
(***************************************************************************)

\* where a match of  .*?\).*?return .*?\n\n  (re.DOTALL) from index i ends:
\* after the first blank line that follows the first "return " that follows
\* the first ")"; -1 when there is no match
ToolDefEnd(s, i) ==
    LET a == FindFrom(s, ")", i)
        r == IF a = -1 THEN -1 ELSE FindFrom(s, "return ", a + 1)
        e == IF r = -1 THEN -1 ELSE FindFrom(s, "\n\n", r + 7)
    IN  IF e = -1 THEN -1 ELSE e + 2

RECURSIVE ToolDefs(_, _, _)
\* re.findall(tool_pattern, s[i:], re.DOTALL) for a pattern that is the
\* literal text head followed by  .*?\).*?return .*?\n\n  (a tool name of
\* word characters stands for itself in the pattern)
ToolDefs(s, head, i) ==
    LET p == FindFrom(s, head, i)
        e == IF p = -1 THEN -1 ELSE ToolDefEnd(s, p + Len(head))
    IN  IF e = -1 THEN <<>>
        ELSE <<Between(s, p, e)>> \o ToolDefs(s, head, e)

RECURSIVE RemoveEach(_, _, _)
\* for match in matches[k:]: server_code = server_code.replace(match, '')
RemoveEach(server_code, matches, k) ==
    IF k > Len(matches) THEN server_code
    ELSE RemoveEach(PyReplace(server_code, matches[k], ""), matches, k + 1)

\* remove_tool, db being what load_database gives.  Found is lines 434-482
\* for the record the loop stopped at: known tells whether the tool is a key
\* of the record's tools, saved is the world once the registry is written
\* without it.  Cut is lines 449-482, server_code being the text of the
\* server file and first the matches of the pattern with the comment line
remove_tool(w, server_name, tool_name) ==
    LET Cut(saved, server_file_path, server_code, first, tool_info) ==
            LET Removed(matches) ==
                    Return(IF matches = <<>> THEN saved
                           ELSE [saved EXCEPT !.files = write_file(
                                    saved, server_file_path,
                                    RemoveEach(server_code, matches, 1))],
                           PyDict(<< <<"server_name", PyStr(server_name)>>,
                                     <<"tool_name", PyStr(tool_name)>>,
                                     <<"tool_info", tool_info>>,
                                     <<"status", PyStr("removed")>> >>))
            IN  Removed(IF first # <<>> THEN first
                        ELSE ToolDefs(server_code,
                                      "@mcp.tool()\ndef " \o tool_name \o "(", 0))
        Found(db, server_id, server_data, known) ==
            LET tools == GetItem(server_data, "tools")
                popped == SetItem(SetItem(server_data, "tools", DelItem(tools, tool_name)),
                                  "tool_count", PyInt(PyLen(tools) - 1))
                saved == IF known
                         THEN [w EXCEPT !.db = save_database(
                                  SetItem2(db.val, "servers", server_id, popped))]
                         ELSE w
                server_file_path == path_join(GetItem(server_data, "location")[2], "server.py")
            IN  IF ~HasKey(server_data, "location") THEN Raise(saved, "KeyError")
                ELSE IF ~IsStr(GetItem(server_data, "location")) THEN Raise(saved, "TypeError")
                ELSE IF ~path_exists(w, server_file_path) THEN Raise(saved, "FileNotFoundError")
                ELSE IF server_file_path \in w.dirs THEN Raise(saved, "IsADirectoryError")
                ELSE Cut(saved, server_file_path, w.files[server_file_path].text,
                         ToolDefs(w.files[server_file_path].text,
                                  "# " \o tool_name \o " tool\n@mcp.tool()\ndef "
                                      \o tool_name \o "(", 0),
                         IF known THEN GetItem(tools, tool_name) ELSE PyNone)
        Loaded(db) ==
            LET servers == GetItem(db.val, "servers")
                i == FirstNamed(servers, server_name)
                server_data == ValueAt(servers, i)
            IN  IF db.raised # "" THEN Raise(w, db.raised)
                ELSE IF ServersError(db.val, "AttributeError") # ""
                THEN Raise(w, ServersError(db.val, "AttributeError"))
                ELSE IF i # 0 /\ NameError(server_data) # ""
                THEN Raise(w, NameError(server_data))
                ELSE IF i = 0 \/ KeyAt(servers, i) = "" THEN Raise(w, "ValueError")
                ELSE IF HasKey(server_data, "tools") /\ ~IsDict(GetItem(server_data, "tools"))
                THEN Raise(w, "TypeError")
                ELSE Found(db, KeyAt(servers, i), server_data,
                           HasKey(server_data, "tools")
                               /\ HasKey(GetItem(server_data, "tools"), tool_name))
    IN  Loaded(w.loaded)

(***************************************************************************)
(* State                                                                   *)
(***************************************************************************)

VARIABLES
    patch_server_code,  \* organize_imports_and_code: argument server_code
    patch_tool_code,    \* organize_imports_and_code: argument tool_code
    patch_result,       \* organize_imports_and_code: returned text
    patch_pc,           \* "ready" before the call, "done" after it
    db_file,            \* the registry file DATABASE_FILE
    config_file,        \* the configuration file CLAUDE_CONFIG_FILE
    files,              \* the files under SERVERS_DIR: path -> text and mode
    dirs,               \* the directories that exist
    uuids,              \* how many identifiers uuid.uuid4() has generated
    installed,          \* the packages pip has installed
    last,               \* the last completed call: operation, arguments,
                        \* exception raised ("" for none) and value returned
    live,               \* the entries create_server returned for the servers
                        \* no remove_server call has returned since
    store_saved,        \* the registry the last save_database step was given
    calls               \* the create_server calls that run side by side: for
                        \* each its position and its local variables

patch_vars == <<patch_server_code, patch_tool_code, patch_result, patch_pc>>

store_vars == <<db_file, config_file, files, dirs, uuids, installed>>

vars == <<patch_vars, store_vars, last, live, store_saved, calls>>

\* the stores as one value a call works on; loaded is what load_database()
\* gives a call that starts from these stores, read once for all the calls
\* drawn in a state
World ==
    [db |-> db_file, config |-> config_file, files |-> files, dirs |-> dirs,
     uuids |-> uuids, installed |-> installed, raised |-> "", ret |-> PyNone,
     loaded |-> load_database(db_file)]

\* a completed call
Call(op, args, raised, ret) ==
    [op |-> op, args |-> args, raised |-> raised, ret |-> ret]

\* the call op(args) completes with the outcome r
Commit(op, args, r) ==
    /\ db_file' = r.db
    /\ config_file' = r.config
    /\ files' = r.files
    /\ dirs' = r.dirs
    /\ uuids' = r.uuids
    /\ installed' = r.installed
    /\ last' = Call(op, args, r.raised, r.ret)

\* the program is idle and nothing has been patched
PatchIdle ==
    /\ patch_server_code = ""
    /\ patch_tool_code = ""
    /\ patch_result = ""
    /\ patch_pc = "done"

\* the stores when the program starts: SERVERS_DIR exists (line 21), nothing
\* else does
StoresInitial ==
    /\ db_file = NoFile
    /\ config_file = NoFile
    /\ files = [q \in {} |-> [text |-> "", executable |-> FALSE]]
    /\ dirs = Ancestors(PySliceTo(SERVERS_DIR, Len(SERVERS_DIR) - 1))
    /\ uuids = 0
    /\ installed = {}

NoHistory ==
    /\ last = Call("", <<>>, "", PyNone)
    /\ live = <<>>
    /\ store_saved = PyNone
    /\ calls = <<>>

(***************************************************************************)
(* The patcher on its own: every pair of texts built from a few lines      *)
(***************************************************************************)

\* most lines of an existing text
MaxServerLines == 2

\* most lines of a fragment
MaxToolLines == 2

RECURSIVE JoinLines(_, _)
\* the lines of l from i on, each terminated by a newline
JoinLines(l, i) ==
    IF i > Len(l) THEN "" ELSE l[i] \o "\n" \o JoinLines(l, i + 1)

\* the sequences over S of length at most n
SeqsUpTo(S, n) == UNION {[1..k -> S] : k \in 0..n}

\* existing texts: up to MaxServerLines lines, the last one with or without
\* its newline
ServerTexts ==
    LET whole == {JoinLines(l, 1) : l \in SeqsUpTo(
                     { "#!/usr/bin/env python3",
                       "import os",
                       "  import os",
                       "from a import b",
                       "x = 1",
                       MainGuard,
                       "if (" \o MainMarker \o "):",
                       "    main()" }, MaxServerLines)}
    IN  whole \cup {PySliceTo(t, Len(t) - 1) : t \in whole \ {""}}

\* fragments: up to MaxToolLines lines
ToolTexts ==
    {JoinLines(l, 1) : l \in SeqsUpTo({ "import os",
                                        "import re",
                                        "def f():",
                                        "    import os",
                                        "    return 1" }, MaxToolLines)}

PatchInit ==
    /\ patch_server_code \in ServerTexts
    /\ patch_tool_code \in ToolTexts
    /\ patch_result = ""
    /\ patch_pc = "ready"
    /\ StoresInitial
    /\ NoHistory

\* one call of organize_imports_and_code
PatchOrganize ==
    /\ patch_pc = "ready"
    /\ patch_result' = organize_imports_and_code(patch_server_code,
                                                 patch_tool_code)
    /\ patch_pc' = "done"
    /\ UNCHANGED <<patch_server_code, patch_tool_code>>
    /\ UNCHANGED <<store_vars, last, live, store_saved, calls>>

PatchNext == PatchOrganize

PatchSpec == PatchInit /\ [][PatchNext]_vars

(***************************************************************************)
(* The server and tool lifecycle: calls of the five operations, one at a   *)
(* time, from the state the program starts in                              *)
(***************************************************************************)

\* most identifiers uuid.uuid4() generates in a run
MaxUuids == 2

\* project names and server names the calls are given
Names == {"Demo", "Demo/x", "my app"}

\* live after a completed call: create_server's return value joins it, the
\* server remove_server reports removed leaves it
LiveAfter(l, call) ==
    IF call.raised # "" THEN l
    ELSE IF call.op = "create_server" THEN Append(l, call.ret)
    ELSE IF call.op = "remove_server"
    THEN LET Stays(e) == GetItem(e, "id")
                             # GetItem(GetItem(call.ret, "removed"), "id")
         IN  SelectSeq(l, Stays)
    ELSE l

Init ==
    /\ PatchIdle
    /\ StoresInitial
    /\ NoHistory

CreateServer ==
    /\ uuids < MaxUuids
    /\ \E w \in {World}, project_name \in Names, description \in {"say \"hi\""} :
           Commit("create_server", <<project_name, description>>,
                  create_server(w, project_name, description))
    /\ live' = LiveAfter(live, last')
    /\ UNCHANGED <<patch_vars, store_saved, calls>>

ListServers ==
    /\ Commit("list_servers", <<>>, list_servers(World))
    /\ live' = LiveAfter(live, last')
    /\ UNCHANGED <<patch_vars, store_saved, calls>>

RemoveServer ==
    /\ \E w \in {World}, server_name \in Names :
           Commit("remove_server", <<server_name>>,
                  remove_server(w, server_name))
    /\ live' = LiveAfter(live, last')
    /\ UNCHANGED <<patch_vars, store_saved, calls>>

AddTool ==
    /\ uuids < MaxUuids
    /\ \E w \in {World}, server_name \in Names, tool_name \in {"add"},
          tool_description \in {"sum"},
          given \in {<<"return a + b", "a: int, b: int", PyNone>>,
                     <<"return a + b", "a", PyNone>>,
                     <<"return a + b", "a: int, b: int", PyStr("import os\nx = 1\n")>>,
                     <<"pass\nimport requests", "a: int, b: int", PyNone>>} :
         \E pip_ok \in IF extract_packages_from_imports(extract_imports(
                               ToolTemplate(tool_name, "", tool_description,
                                            given[1]))) = {}
                        THEN {TRUE} ELSE BOOLEAN :
           Commit("add_tool_to_server",
                  <<server_name, tool_name, tool_description, given[1], given[2],
                    given[3]>>,
                  add_tool_to_server(w, server_name, tool_name,
                                     tool_description, given[1], given[2],
                                     given[3], pip_ok))
    /\ live' = LiveAfter(live, last')
    /\ UNCHANGED <<patch_vars, store_saved, calls>>

ListTools ==
    /\ \E w \in {World}, server_name \in Names :
           Commit("list_tools", <<server_name>>, list_tools(w, server_name))
    /\ live' = LiveAfter(live, last')
    /\ UNCHANGED <<patch_vars, store_saved, calls>>

\* the tool names remove_tool is given: one that add_tool_to_server adds, one
\* that no call adds
RemoveTool ==
    /\ \E w \in {World}, server_name \in Names, tool_name \in {"add", "sub"} :
           Commit("remove_tool", <<server_name, tool_name>>,
                  remove_tool(w, server_name, tool_name))
    /\ live' = LiveAfter(live, last')
    /\ UNCHANGED <<patch_vars, store_saved, calls>>

Next ==
    \/ CreateServer
    \/ ListServers
    \/ RemoveServer
    \/ AddTool
    \/ ListTools
    \/ RemoveTool

Spec == Init /\ [][Next]_vars

(***************************************************************************)
(* The registry store on its own: load_database and save_database on a     *)
(* registry file that holds anything a file can hold                       *)
(***************************************************************************)

\* most records of a registry save_database is given
MaxStoreServers == 2

\* records a registry is built from: one create_server writes, one with a
\* tool, one whose values need escapes and cover the other JSON types, and an
\* empty one
StoreRecords ==
    { ServerEntry("a", "Demo", "say \"hi\"", path_join(SERVERS_DIR, "Demo")),
      WithTool(ServerEntry("b", "my app", "", path_join(SERVERS_DIR, "my app")),
               "t", ToolEntry("t", "add", "sum", <<ParamEntry("a: int")>>)),
      PyDict(<< <<"name", PyStr("a\\b\n\tc/d")>>,
                <<"tool_count", PyInt(-12)>>,
                <<"tools", PyList(<< PyBool(TRUE), PyBool(FALSE), PyNone,
                                     PyList(<<>>), PyInt(0), PyStr("") >>)>> >>),
      PyDict(<<>>) }

\* registries of at most MaxStoreServers records, the n-th under the n-th
\* identifier
StoreRegistries ==
    { PyDict(<< <<"servers", PyDict([n \in 1..Len(l) |-> <<uuid4(n), l[n]>>])>> >>) :
          l \in SeqsUpTo(StoreRecords, MaxStoreServers) }

\* what the registry file can hold when the program starts: nothing, bytes
\* that are not UTF-8, text that is not JSON, JSON that is no registry, and
\* what save_database wrote, whole or cut short
StoreFiles ==
    { NoFile, BinaryFile }
        \cup { TextFile(t) : t \in { "", "{", "[]", "null", "{}", "\"abc",
                                     "{\"servers\": {}}", "{\"servers\": {}} x",
                                     "{\"servers\": {01}}", "{\"a\": \"\\q\"}" } }
        \cup { save_database(R) : R \in StoreRegistries }
        \cup { TextFile(PySliceTo(json_dump(R), Len(json_dump(R)) - 1)) :
                   R \in StoreRegistries }

StoreInit ==
    /\ PatchIdle
    /\ db_file \in StoreFiles
    /\ config_file = NoFile
    /\ files = [q \in {} |-> [text |-> "", executable |-> FALSE]]
    /\ dirs = Ancestors(PySliceTo(SERVERS_DIR, Len(SERVERS_DIR) - 1))
    /\ uuids = 0
    /\ installed = {}
    /\ NoHistory

\* one call of load_database
StoreLoad ==
    /\ last' = Call("load_database", <<>>, load_database(db_file).raised,
                    load_database(db_file).val)
    /\ UNCHANGED <<patch_vars, store_vars, live, store_saved, calls>>

\* one call of save_database
StoreSave ==
    /\ \E R \in StoreRegistries :
           /\ db_file' = save_database(R)
           /\ store_saved' = R
           /\ last' = Call("save_database", <<R>>, "", PyNone)
    /\ UNCHANGED <<patch_vars, config_file, files, dirs, uuids, installed, live, calls>>

StoreNext ==
    \/ StoreLoad
    \/ StoreSave

StoreSpec == StoreInit /\ [][StoreNext]_vars

(***************************************************************************)
(* Properties of the patcher (checked under PatchSpec)                     *)
(***************************************************************************)

\* the fragment as the patcher places it: without its hoisted imports and
\* without surrounding whitespace
PlacedFragment(tool_code) ==
    PyStrip(RemoveImports(tool_code, extract_imports(tool_code), 1))

\* C1: when the existing text contains the entry-point marker the fragment
\* lies wholly before an occurrence of the marker in the output, and when it
\* does not the fragment is the end of the output.
C1_FragmentBeforeMarkerOrAtEnd ==
    patch_pc = "done" =>
        LET frag == PlacedFragment(patch_tool_code)
        IN  IF Contains(patch_server_code, MainMarker)
            THEN \/ frag = ""
                 \/ \E k \in 0..Len(patch_result) :
                        /\ StartsWithAt(patch_result, frag, k)
                        /\ FindFrom(patch_result, MainMarker,
                                    k + Len(frag)) # -1
            ELSE EndsWith(patch_result, frag)

\* C2: when an import-like line occurs more than once in the two inputs, each
\* distinct import-like line of the inputs is an import-like line of the
\* output exactly once.
C2_EachImportExactlyOnce ==
    LET ins  == extract_imports(patch_server_code)
                \o extract_imports(patch_tool_code)
        outs == extract_imports(patch_result)
    IN  (patch_pc = "done" /\ Cardinality(ToSet(ins)) < Len(ins)) =>
            \A s \in ToSet(ins) :
                Cardinality({i \in 1..Len(outs) : outs[i] = s}) = 1

\* C3: a fragment without import-like lines is found in the output as one
\* unmodified block, up to its leading and trailing whitespace.
C3_ImportFreeFragmentUnchanged ==
    (patch_pc = "done" /\ extract_imports(patch_tool_code) = <<>>) =>
        Contains(patch_result, PyStrip(patch_tool_code))

\* C3 witness: an import-free, non-blank fragment merged into a text that has
\* an import to hoist and an entry-point marker.
C3_Witness ==
    /\ patch_pc = "done"
    /\ extract_imports(patch_tool_code) = <<>>
    /\ PyStrip(patch_tool_code) # ""
    /\ extract_imports(patch_server_code) # <<>>
    /\ Contains(patch_server_code, MainMarker)

\* the first line of a text, without its newline
FirstLine(s) ==
    LET k == PyFind(s, "\n") IN IF k = -1 THEN s ELSE PySliceTo(s, k)

RECURSIVE LeadingImportsEnd(_, _)
\* the end of the block of import-like lines that starts at i
LeadingImportsEnd(s, i) ==
    LET e == MatchImportAt(s, i)
    IN  IF e # -1 /\ CharAt(s, e) = "\n"
        THEN LeadingImportsEnd(s, e + 1) ELSE i

\* C4: a shebang line that starts the existing text is the first line of the
\* output, the import-like statements of both inputs come directly after it,
\* and no import-like statement comes later.
C4_ShebangFirstThenImports ==
    (patch_pc = "done" /\ StartsWith(patch_server_code, "#!/")) =>
        LET shebang == FirstLine(patch_server_code)
            start   == Len(shebang) + 1
            stop    == LeadingImportsEnd(patch_result, start)
            ins     == extract_imports(patch_server_code)
                       \o extract_imports(patch_tool_code)
        IN  /\ StartsWith(patch_result, shebang \o "\n")
            /\ ToSet(extract_imports(PySlice(patch_result, start, stop)))
                   = ToSet(ins)
            /\ extract_imports(PySliceFrom(patch_result, stop)) = <<>>

(***************************************************************************)
(* Properties of the registry store (checked under StoreSpec)              *)
(***************************************************************************)

\* C5: load_database after save_database(R) returns a mapping equal to R,
\* for every registry R of JSON-serializable records.
C5_SaveThenLoadIsIdentity ==
    (last.op = "load_database" /\ store_saved # PyNone) =>
        /\ last.raised = ""
        /\ last.ret = store_saved

\* C5 witness: a registry of two records, one of them with a text that needs
\* escapes, has been saved and loaded.
C5_Witness ==
    /\ last.op = "load_database"
    /\ store_saved # PyNone
    /\ PyLen(GetItem(store_saved, "servers")) = 2
    /\ Contains(db_file.text, "\\\"")

\* C6: load_database does not raise when the registry file is absent or does
\* not hold valid JSON; it returns exactly {"servers": {}}.
C6_LoadNeverRaisesOnBadFile ==
    (/\ last.op = "load_database"
     /\ (~db_file.exists \/ ~db_file.utf8 \/ json_load(db_file.text).pos = -1)) =>
        /\ last.raised = ""
        /\ last.ret = PyDict(<< <<"servers", PyDict(<<>>)>> >>)

(***************************************************************************)
(* Properties of the lifecycle (checked under Spec)                        *)
(***************************************************************************)

\* the records of the registry the file holds
ServersOf(file) == GetItem(load_database(file).val, "servers")

\* no record of the registry the file holds has the name
NoRecordNamed(file, name) ==
    LET servers == ServersOf(file)
    IN  \A i \in 1..PyLen(servers) :
            GetItem(servers[2][i][2], "name") # PyStr(name)

\* C7: remove_server of a name that no registry record has raises ValueError
\* and leaves the registry file, the server directories and files, and the
\* configuration file as they were.
C7_RemoveMissingRaisesAndKeeps ==
    [][(last'.op = "remove_server" /\ NoRecordNamed(db_file, last'.args[1])) =>
           /\ last'.raised = "ValueError"
           /\ UNCHANGED <<db_file, config_file, files, dirs>>]_vars

\* C7 witness: remove_server was called with a name no record has while the
\* registry held a server, its directory and its file.
C7_Witness ==
    /\ last.op = "remove_server"
    /\ last.raised = "ValueError"
    /\ NoRecordNamed(db_file, last.args[1])
    /\ PyLen(ServersOf(db_file)) >= 1
    /\ DOMAIN files # {}

\* the tools of the first record named name in the registry the file holds
ToolsOf(file, name) ==
    LET servers == ServersOf(file)
    IN  GetItem(ValueAt(servers, FirstNamed(servers, name)), "tools")

\* C8: when the server S holds exactly one tool, added by add_tool_to_server
\* under the name T, list_tools(S) returns exactly one entry, named T.
C8_ListToolsNamesTheAddedTool ==
    (/\ last.op = "list_tools"
     /\ ~NoRecordNamed(db_file, last.args[1])
     /\ PyLen(ToolsOf(db_file, last.args[1])) = 1) =>
        /\ last.raised = ""
        /\ PyLen(GetItem(last.ret, "tools")) = 1
        /\ GetItem(GetItem(last.ret, "tools")[2][1], "name")
               = GetItem(ToolsOf(db_file, last.args[1])[2][1][2], "name")

\* what list_servers returned lists the servers of l, in order, each with its
\* id, name and description
ListsExactly(ret, l) ==
    /\ IsDict(ret) /\ HasKey(ret, "servers")
    /\ PyLen(GetItem(ret, "servers")) = Len(l)
    /\ \A i \in 1..Len(l) :
           \A k \in {"id", "name", "description"} :
               /\ HasKey(GetItem(ret, "servers")[2][i], k)
               /\ GetItem(GetItem(ret, "servers")[2][i], k) = GetItem(l[i], k)

\* C9: list_servers returns exactly one entry for each server created and not
\* yet removed, with the id, name and description of its creation, an empty
\* list when none remains, and changes nothing.
C9_ListServersListsLive ==
    [][last'.op = "list_servers" =>
           /\ last'.raised = ""
           /\ ListsExactly(last'.ret, live)
           /\ (live = <<>> =>
                   last'.ret = PyDict(<< <<"servers", PyList(<<>>)>> >>))
           /\ UNCHANGED <<db_file, config_file, files, dirs, uuids, installed>>]_vars

\* C9 witness: two servers were created, the first was removed, and
\* list_servers returned the one that remains.
C9_Witness ==
    /\ last.op = "list_servers"
    /\ Len(live) = 1
    /\ GetItem(live[1], "id") = PyStr(uuid4(2))
    /\ PyLen(GetItem(last.ret, "servers")) = 1

\* the ids of the entries of l differ from one another and each is a key of
\* servers
DistinctAndPresent(l, servers) ==
    /\ \A i, j \in 1..Len(l) : i # j => GetItem(l[i], "id") # GetItem(l[j], "id")
    /\ \A i \in 1..Len(l) : HasKey(servers, GetItem(l[i], "id")[2])

\* C10: create_server returns an entry with an id no record had, the given
\* name and description, tool_count 0 and tools {}; the registry afterwards
\* is the registry before with that entry added under its id; the servers
\* created have different ids and are all present.
C10_CreateStoresFreshEntry ==
    [][(last'.op = "create_server" /\ last'.raised = "" /\ uuids' # uuids) =>
           LET before == ServersOf(db_file)
               after == ServersOf(db_file')
           IN  /\ \A k \in {"id", "name", "description", "tool_count", "tools"} :
                      HasKey(last'.ret, k)
               /\ IsStr(GetItem(last'.ret, "id"))
               /\ ~HasKey(before, GetItem(last'.ret, "id")[2])
               /\ GetItem(last'.ret, "name") = PyStr(last'.args[1])
               /\ GetItem(last'.ret, "description") = PyStr(last'.args[2])
               /\ GetItem(last'.ret, "tool_count") = PyInt(0)
               /\ GetItem(last'.ret, "tools") = PyDict(<<>>)
               /\ after = SetItem(before, GetItem(last'.ret, "id")[2], last'.ret)
               /\ DistinctAndPresent(live', after)]_vars

\* C10 witness: create_server has returned twice and both records are in the
\* registry.
C10_Witness ==
    /\ last.op = "create_server"
    /\ last.raised = ""
    /\ Len(live) = 2
    /\ PyLen(ServersOf(db_file)) = 2

\* C11: after create_server(name, description) returns an entry with id I,
\* the directory <SERVERS_DIR>/I exists and contains an executable server.py
\* whose text names the project.
C11_CreateMakesDirectoryOfId ==
    [][(last'.op = "create_server" /\ last'.raised = "") =>
           LET Made(server_dir, server_file) ==
                   /\ server_dir \in dirs'
                   /\ server_file \in DOMAIN files'
                   /\ files'[server_file].executable
                   /\ Contains(files'[server_file].text, last'.args[1])
               Of(server_dir) == Made(server_dir, path_join(server_dir, "server.py"))
           IN  Of(path_join(SERVERS_DIR, GetItem(last'.ret, "id")[2]))]_vars

\* the files and the directories under the directory d
TreeOf(fs, ds, d) ==
    <<[q \in {f \in DOMAIN fs : IsUnder(f, d)} |-> fs[q]],
      {x \in ds : IsUnder(x, d)}>>

\* C12: remove_server(name) for an existing server removes that server's
\* record from the registry, deletes its on-disk directory, returns the
\* removed record, and leaves the record and the directory of every other
\* server untouched.
C12_RemoveTakesOnlyThatServer ==
    [][(last'.op = "remove_server" /\ ~NoRecordNamed(db_file, last'.args[1])) =>
           LET Removed(before, after, i) ==
                   /\ last'.raised = ""
                   /\ last'.ret = PyDict(<< <<"removed", ValueAt(before, i)>> >>)
                   /\ after = DelItem(before, KeyAt(before, i))
                   /\ ~path_exists([files |-> files', dirs |-> dirs'],
                                   GetItem(ValueAt(before, i), "location")[2])
                   /\ \A j \in (1..PyLen(before)) \ {i} :
                          /\ HasKey(after, KeyAt(before, j))
                          /\ GetItem(after, KeyAt(before, j)) = ValueAt(before, j)
                          /\ TreeOf(files', dirs', GetItem(ValueAt(before, j), "location")[2])
                                 = TreeOf(files, dirs, GetItem(ValueAt(before, j), "location")[2])
               Named(before) == Removed(before, ServersOf(db_file'),
                                        FirstNamed(before, last'.args[1]))
           IN  Named(ServersOf(db_file))]_vars

\* the stripped parts of params, none for an empty params
ParamParts(params) ==
    IF params = "" THEN <<>>
    ELSE [k \in 1..Len(PySplit(params, ",")) |-> PyStrip(PySplit(params, ",")[k])]

\* C13: a successful add_tool_to_server(S, T, description, code, params,
\* server_code) rewrites S's server.py to organize_imports_and_code(base,
\* fragment), base being the supplied server_code when one is given and the
\* file's previous content otherwise, fragment the generated @mcp.tool()
\* definition def T(<params>); it adds one tool record named T with the
\* parsed parameters to S's registry entry and sets tool_count to one more
\* than before.
C13_AddToolPatchesFileAndRegistry ==
    [][(last'.op = "add_tool_to_server" /\ last'.raised = "") =>
           LET Added(server_file_path, before, after, parameters) ==
                   /\ files'[server_file_path].text = organize_imports_and_code(
                          IF last'.args[6] = PyNone THEN files[server_file_path].text
                          ELSE last'.args[6][2],
                          ToolTemplate(last'.args[2], ParamsStr(parameters, 1),
                                       last'.args[3], last'.args[4]))
                   /\ Contains(files'[server_file_path].text,
                               "@mcp.tool()\ndef " \o last'.args[2] \o "(")
                   /\ PyLen(GetItem(after, "tools")) = PyLen(GetItem(before, "tools")) + 1
                   /\ \E k \in 1..PyLen(GetItem(after, "tools")) :
                          /\ GetItem(before, "tools")
                                 = DelItem(GetItem(after, "tools"), KeyAt(GetItem(after, "tools"), k))
                          /\ GetItem(ValueAt(GetItem(after, "tools"), k), "name")
                                 = PyStr(last'.args[2])
                          /\ GetItem(ValueAt(GetItem(after, "tools"), k), "parameters")
                                 = PyList(parameters)
                   /\ GetItem(after, "tool_count")
                          = PyInt(GetItem(before, "tool_count")[2] + 1)
           IN  \A servers \in {ServersOf(db_file)}, parts \in {ParamParts(last'.args[5])} :
                 \A i \in {FirstNamed(servers, last'.args[1])} :
                   \A after \in {GetItem(ServersOf(db_file'), KeyAt(servers, i))} :
                     Added(path_join(GetItem(ValueAt(servers, i), "location")[2], "server.py"),
                           ValueAt(servers, i), after,
                           [k \in 1..Len(parts) |-> ParamEntry(parts[k])])]_vars

\* C13 witness: add_tool_to_server has returned for a call that supplied
\* server_code, and the server file holds the tool.
C13_Witness ==
    /\ last.op = "add_tool_to_server"
    /\ last.raised = ""
    /\ last.args[6] # PyNone
    /\ \E p \in DOMAIN files : Contains(files[p].text, "@mcp.tool()\ndef add(a: int, b: int)")

\* C14: in every registry entry the tools mapping is keyed by tool name:
\* after add_tool_to_server(S, T, ...) the tools mapping of S has the key T,
\* mapped to a record whose name is T.
C14_ToolsKeyedByName ==
    [][(last'.op = "add_tool_to_server" /\ last'.raised = "") =>
           \A tools \in {ToolsOf(db_file', last'.args[1])} :
               /\ HasKey(tools, last'.args[2])
               /\ GetItem(GetItem(tools, last'.args[2]), "name") = PyStr(last'.args[2])]_vars

\* the mcpServers mapping of the configuration the file holds
McpServersOf(file) == GetItem(load_claude_config(file).val, "mcpServers")

\* the directory argument of a configuration entry: the last but one of args
DirectoryArg(entry) == GetItem(entry, "args")[2][PyLen(GetItem(entry, "args")) - 1]

\* key is name in lower case with every space replaced by an underscore
IsSlugOf(key, name) ==
    /\ Len(key) = Len(name)
    /\ \A k \in 0..(Len(name) - 1) :
           CharAt(key, k) = IF CharAt(name, k) = " " THEN "_"
                            ELSE IF Contains(UpperChars, CharAt(name, k))
                            THEN CharAt(LowerChars, PyFind(UpperChars, CharAt(name, k)))
                            ELSE CharAt(name, k)

\* C15: create_server(name) adds to the configuration's mcpServers mapping an
\* entry keyed by the slug of name (lower-cased, spaces replaced by
\* underscores) whose directory argument is the server's location;
\* remove_server(name) deletes the entry whose directory argument equals the
\* removed server's location and leaves every other entry unchanged.
C15_ConfigurationFollowsServers ==
    [][/\ (last'.op = "create_server" /\ last'.raised = "") =>
              \A after \in {McpServersOf(config_file')} :
                  \E k \in 1..PyLen(after) :
                      /\ IsSlugOf(KeyAt(after, k), last'.args[1])
                      /\ DirectoryArg(ValueAt(after, k)) = GetItem(last'.ret, "location")
       /\ (last'.op = "remove_server" /\ last'.raised = "") =>
              \A before \in {McpServersOf(config_file)}, after \in {McpServersOf(config_file')} :
                  /\ \A k \in 1..PyLen(before) :
                         IF DirectoryArg(ValueAt(before, k))
                                = GetItem(GetItem(last'.ret, "removed"), "location")
                         THEN ~HasKey(after, KeyAt(before, k))
                         ELSE /\ HasKey(after, KeyAt(before, k))
                              /\ GetItem(after, KeyAt(before, k)) = ValueAt(before, k)
                  /\ \A k \in 1..PyLen(after) : HasKey(before, KeyAt(after, k))]_vars

\* C15 witness: remove_server has returned and the configuration still holds
\* the entry of another server, keyed by a slug that differs from its name.
C15_Witness ==
    /\ last.op = "remove_server"
    /\ last.raised = ""
    /\ PyLen(McpServersOf(config_file)) = 1
    /\ HasKey(McpServersOf(config_file), "my_app")

\* the first record named server_name has the tool neither in its tools, as a
\* key or as the name of a record, nor in the text of its server.py
ToolNowhere(servers, i, fs, tool_name) ==
    /\ i # 0
    /\ \A tools \in {GetItem(ValueAt(servers, i), "tools")} :
           /\ ~HasKey(tools, tool_name)
           /\ \A k \in 1..PyLen(tools) :
                  GetItem(ValueAt(tools, k), "name") # PyStr(tool_name)
    /\ \A p \in {path_join(GetItem(ValueAt(servers, i), "location")[2], "server.py")} :
           p \in DOMAIN fs => ~Contains(fs[p].text, "def " \o tool_name \o "(")

\* C16: remove_tool(server, tool) for a tool name that the server has neither
\* in its registry entry nor in its server.py fails with a not-found error;
\* it does not report the tool as removed.
C16_RemoveUnknownToolFails ==
    [][(/\ last'.op = "remove_tool"
        /\ \A servers \in {ServersOf(db_file)} :
               ToolNowhere(servers, FirstNamed(servers, last'.args[1]), files,
                           last'.args[2]))
           => /\ last'.raised \in {"ValueError", "FileNotFoundError", "KeyError"}
              /\ last'.ret # PyDict(<< <<"server_name", PyStr(last'.args[1])>>,
                                       <<"tool_name", PyStr(last'.args[2])>>,
                                       <<"tool_info", PyNone>>,
                                       <<"status", PyStr("removed")>> >>)]_vars

\* the call add_tool_to_server(args) gets as far as installing packages: a
\* record has the name, its server.py is a file, every part of params has
\* a ':'
ReachesInstall(servers, i, fs, args) ==
    /\ i # 0
    /\ path_join(GetItem(ValueAt(servers, i), "location")[2], "server.py") \in DOMAIN fs
    /\ \A parts \in {ParamParts(args[5])} :
           \A k \in 1..Len(parts) : Contains(parts[k], ":")

\* pip was run for the package the fragment imports and failed: the package
\* is still missing after the call
PipFailed(args, after) ==
    /\ Contains(args[4], "\nimport requests")
    /\ "requests" \notin after

\* C17 as stated: a failure of the package-installation subprocess during
\* add_tool_to_server is raised to the caller and is terminal for the call:
\* the server file and the registry are not then updated with the new tool.
C17_PipFailureIsRaised ==
    [][(/\ last'.op = "add_tool_to_server"
        /\ PipFailed(last'.args, installed')
        /\ \A servers \in {ServersOf(db_file)} :
               ReachesInstall(servers, FirstNamed(servers, last'.args[1]), files, last'.args))
           => /\ last'.raised # ""
              /\ files' = files
              /\ db_file' = db_file]_vars

\* C17 amended: a failure of the package-installation subprocess during
\* add_tool_to_server is not raised: the call goes on, writes the tool to
\* the server file, adds it to the registry and returns, and the package
\* stays missing.
C17_PipFailureIsSwallowed ==
    [][(/\ last'.op = "add_tool_to_server"
        /\ PipFailed(last'.args, installed')
        /\ \A servers \in {ServersOf(db_file)} :
               ReachesInstall(servers, FirstNamed(servers, last'.args[1]), files, last'.args))
           => /\ last'.raised = ""
              /\ installed' = installed
              /\ \A servers \in {ServersOf(db_file)}, after \in {ToolsOf(db_file', last'.args[1])} :
                   \A i \in {FirstNamed(servers, last'.args[1])} :
                     /\ Contains(files'[path_join(GetItem(ValueAt(servers, i), "location")[2],
                                                  "server.py")].text,
                                 "@mcp.tool()\ndef " \o last'.args[2] \o "(")
                     /\ PyLen(after) = PyLen(GetItem(ValueAt(servers, i), "tools")) + 1
                     /\ \E k \in 1..PyLen(after) :
                            GetItem(ValueAt(after, k), "name") = PyStr(last'.args[2])]_vars

\* C17 witness: add_tool_to_server has returned for a fragment that imports
\* requests, and requests is not installed.
C17_Witness ==
    /\ last.op = "add_tool_to_server"
    /\ last.raised = ""
    /\ PipFailed(last.args, installed)

(***************************************************************************)
(* The file operations: the edit body of src/modified_server.py and        *)
(* write_file_content of src/tools/write_file.py, on a small file system   *)
(***************************************************************************)

RECURSIVE CountFrom(_, _, _)
\* s.count(p) from index i on: occurrences that do not overlap, counted from
\* the left; an empty p is counted once at every index and at the end
CountFrom(s, p, i) ==
    IF p = "" THEN Len(s) - i + 1
    ELSE IF FindFrom(s, p, i) = -1 THEN 0
    ELSE 1 + CountFrom(s, p, FindFrom(s, p, i) + Len(p))

\* the edit body (modified_server.py:361-404) on the arguments file_path,
\* old_string and new_string, not None: k is where content.replace(
\* old_string, new_string, 1) finds old_string; the value returned is the
\* message without the snippet that follows its first line
edit_file(w, file_path, old_string, new_string) ==
    LET Read(content) ==
            LET k == PyFind(content, old_string)
                new_content == PySliceTo(content, k) \o new_string
                                   \o PySliceFrom(content, k + Len(old_string))
            IN  IF ~Contains(content, old_string) THEN Raise(w, "ValueError")
                ELSE IF CountFrom(content, old_string, 0) > 1 THEN Raise(w, "ValueError")
                ELSE Return([w EXCEPT !.files = write_file(w, file_path, new_content)],
                            PyStr("Successfully edited " \o file_path))
    IN  IF ~path_exists(w, file_path) THEN Raise(w, "FileNotFoundError")
        ELSE IF file_path \in w.dirs THEN Raise(w, "IsADirectoryError")
        ELSE Read(w.files[file_path].text)

\* write_file_content(file_path, content, description): a relative path is
\* refused at lines 36-38; the assignments at lines 51 and 53 make
\* line_endings a local name of the function, so the right-hand side of
\* either one, whichever os.path.exists selects, reads the local before it
\* is bound and raises; lines 55-62 (makedirs, the write, the message) are
\* not reached
write_file_content(w, file_path, content, description) ==
    IF ~StartsWith(file_path, "/") THEN Raise(w, "ValueError")
    ELSE Raise(w, "UnboundLocalError")

\* longest text of a file before an edit
MaxFileLen == 3

\* the texts of a's and b's of length at most n
FileTexts(n) ==
    {PyReplace(JoinLines(l, 1), "\n", "") : l \in SeqsUpTo({"a", "b"}, n)}

\* a directory /w with or without a file f in it
FileInit ==
    /\ PatchIdle
    /\ NoHistory
    /\ db_file = NoFile
    /\ config_file = NoFile
    /\ uuids = 0
    /\ installed = {}
    /\ dirs = {"/w"}
    /\ \/ files = [q \in {} |-> [text |-> "", executable |-> FALSE]]
       \/ \E text \in FileTexts(MaxFileLen) :
              files = [q \in {"/w/f"} |-> [text |-> text, executable |-> FALSE]]

EditFile ==
    /\ \A q \in DOMAIN files : Len(files[q].text) <= MaxFileLen
    /\ \E file_path \in {"/w/f", "/w"}, old_string \in {"", "a", "aa", "ab"},
          new_string \in {"", "b", "ba"} :
           Commit("edit_file", <<file_path, old_string, new_string>>,
                  edit_file(World, file_path, old_string, new_string))
    /\ UNCHANGED <<patch_vars, live, store_saved, calls>>

WriteFile ==
    /\ \E file_path \in {"/w/f", "/w/d/g", "g"}, content \in {"", "ab"} :
           Commit("write_file_content", <<file_path, content>>,
                  write_file_content(World, file_path, content, "note"))
    /\ UNCHANGED <<patch_vars, live, store_saved, calls>>

FileNext ==
    \/ EditFile
    \/ WriteFile

FileSpec == FileInit /\ [][FileNext]_vars

\* the indices of content at which old_string occurs
Occurrences(content, old_string) ==
    {k \in 0..(Len(content) - Len(old_string)) : StartsWithAt(content, old_string, k)}

\* C18: the edit operation replaces old_string by new_string only when
\* old_string occurs exactly once in the file, changing that occurrence and
\* nothing else; when old_string occurs zero times or more than once it
\* raises an error and leaves the file content unchanged.
C18_EditOnlyUniqueOccurrence ==
    [][(last'.op = "edit_file" /\ last'.args[1] \in DOMAIN files) =>
           LET Edited(file_path, content, old_string, new_string, at) ==
                   IF Cardinality(at) = 1
                   THEN /\ last'.raised = ""
                        /\ \E k \in at :
                               files' = [files EXCEPT ![file_path].text =
                                            Between(content, 0, k) \o new_string
                                                \o Between(content, k + Len(old_string),
                                                           Len(content))]
                   ELSE /\ last'.raised # ""
                        /\ files' = files
           IN  Edited(last'.args[1], files[last'.args[1]].text, last'.args[2],
                      last'.args[3],
                      Occurrences(files[last'.args[1]].text, last'.args[2]))]_vars

\* C19: write_file_content(path, content, description) with an absolute path
\* writes exactly content to the file, creating missing parent directories,
\* and returns "Successfully wrote to <path>", both when the file already
\* exists and when it does not.
C19_WriteFileWritesContent ==
    [][(last'.op = "write_file_content" /\ StartsWith(last'.args[1], "/")) =>
           /\ last'.raised = ""
           /\ last'.ret = PyStr("Successfully wrote to " \o last'.args[1])
           /\ last'.args[1] \in DOMAIN files'
           /\ files'[last'.args[1]].text = last'.args[2]
           /\ Ancestors(dirname(last'.args[1])) \subseteq dirs']_vars

\* C20: in the output of organize_imports_and_code(T, F) the surviving import
\* statements appear in lexicographic (sorted string) order, independent of
\* the order in which they occur in T and F.
C20_ImportsInSortedOrder ==
    patch_pc = "done" =>
        \A outs \in {extract_imports(patch_result)} :
            \A i, j \in 1..Len(outs) : i < j => ~StrLess(outs[j], outs[i])

\* C21: when the existing text T has no entry-point marker, the fragment is
\* the end of organize_imports_and_code(T, F) and exactly one blank line lies
\* between it and what precedes it, whatever trailing newlines T has.
C21_AppendedAfterOneBlankLine ==
    (/\ patch_pc = "done"
     /\ ~Contains(patch_server_code, MainMarker)
     /\ PyStrip(patch_server_code) # ""
     /\ PlacedFragment(patch_tool_code) # "") =>
        /\ EndsWith(patch_result, "\n\n" \o PlacedFragment(patch_tool_code))
        /\ ~EndsWith(patch_result,
                     "\n\n\n" \o PlacedFragment(patch_tool_code))

(***************************************************************************)
(* Two create_server calls side by side (two processes of the program on   *)
(* the same registry and configuration files).  A call is split where      *)
(* another process can run in between: after the directory and the file    *)
(* are made, after each load, after each open(path, 'w'), which truncates  *)
(* the file, and after each json.dump with the close that follows it.      *)
(***************************************************************************)

\* the calls that run side by side
Callers == {1, 2}

\* a call that has not started
NotCalled ==
    [pc |-> "start", project_name |-> "", description |-> "",
     server_id |-> "", server_location |-> "", db |-> PyNone,
     claude_config |-> PyNone, raised |-> ""]

\* the call c goes on at pc with its local variables as in locals
Goes(c, pc, locals) == calls' = [calls EXCEPT ![c] = [locals EXCEPT !.pc = pc]]

\* the call c ends by raising e
Raises(c, e) == calls' = [calls EXCEPT ![c].pc = "raised", ![c].raised = e]

\* server_entry of the call with the local variables l
EntryOf(l) ==
    ServerEntry(l.server_id, l.project_name, l.description, l.server_location)

RaceInit ==
    /\ PatchIdle
    /\ StoresInitial
    /\ last = Call("", <<>>, "", PyNone)
    /\ live = <<>>
    /\ store_saved = PyNone
    /\ calls = [c \in Callers |-> NotCalled]

\* lines 273-308: the identifier, the directory, the server file and its mode
RaceMake(c) ==
    /\ calls[c].pc = "start"
    /\ \E project_name \in Names, description \in {"say \"hi\""} :
         \E server_location \in {path_join(SERVERS_DIR, project_name)},
            fs \in {[files |-> files, dirs |-> dirs]} :
           /\ uuids' = uuids + 1
           /\ IF MakedirsFails(fs, server_location)
              THEN /\ Raises(c, "FileExistsError")
                   /\ UNCHANGED <<files, dirs>>
              ELSE IF path_join(server_location, "server.py") \in dirs
              THEN /\ Raises(c, "IsADirectoryError")
                   /\ dirs' = makedirs(fs, server_location)
                   /\ UNCHANGED files
              ELSE /\ Goes(c, "made",
                           [calls[c] EXCEPT
                               !.project_name = project_name,
                               !.description = description,
                               !.server_id = uuid4(uuids + 1),
                               !.server_location = server_location])
                   /\ dirs' = makedirs(fs, server_location)
                   /\ files' = chmod_executable(
                                   write_file(fs,
                                       path_join(server_location, "server.py"),
                                       ServerTemplate(project_name)),
                                   path_join(server_location, "server.py"))
    /\ UNCHANGED <<patch_vars, db_file, config_file, installed, last, live,
                   store_saved>>

\* line 311: db = load_database()
RaceLoadDatabase(c) ==
    /\ calls[c].pc = "made"
    /\ \E db \in {load_database(db_file)} :
           IF db.raised # "" THEN Raises(c, db.raised)
           ELSE Goes(c, "loaded", [calls[c] EXCEPT !.db = db.val])
    /\ UNCHANGED <<patch_vars, store_vars, last, live, store_saved>>

\* lines 312-313 and 46: db["servers"][server_id] = server_entry, then
\* save_database(db) opens the registry file for writing, which empties it
RaceOpenDatabase(c) ==
    /\ calls[c].pc = "loaded"
    /\ IF ServersError(calls[c].db, "TypeError") # ""
       THEN /\ Raises(c, ServersError(calls[c].db, "TypeError"))
            /\ UNCHANGED <<db_file, store_saved>>
       ELSE \E db \in {SetItem2(calls[c].db, "servers", calls[c].server_id,
                                EntryOf(calls[c]))} :
              /\ Goes(c, "opened", [calls[c] EXCEPT !.db = db])
              /\ db_file' = TextFile("")
              /\ store_saved' = db
    /\ UNCHANGED <<patch_vars, config_file, files, dirs, uuids, installed,
                   last, live>>

\* a write that adds the record of the call to the registry the last
\* save_database call was given instead of writing the registry the call
\* loaded
RaceDumpDatabaseMerging(c) ==
    /\ calls[c].pc = "opened"
    /\ db_file' = save_database(SetItem2(store_saved, "servers",
                                         calls[c].server_id, EntryOf(calls[c])))
    /\ Goes(c, "saved", calls[c])
    /\ UNCHANGED <<patch_vars, config_file, files, dirs, uuids, installed,
                   last, live, store_saved>>

\* line 47 and the end of the with block: the registry is written
RaceDumpDatabase(c) ==
    /\ calls[c].pc = "opened"
    /\ db_file' = save_database(calls[c].db)
    /\ Goes(c, "saved", calls[c])
    /\ UNCHANGED <<patch_vars, config_file, files, dirs, uuids, installed,
                   last, live, store_saved>>

\* lines 316-318: claude_config = load_claude_config(), with its mcpServers
RaceLoadConfig(c) ==
    /\ calls[c].pc = "saved"
    /\ \E claude_config \in {load_claude_config(config_file)} :
           IF claude_config.raised # "" THEN Raises(c, claude_config.raised)
           ELSE IF ~IsDict(claude_config.val) THEN Raises(c, "TypeError")
           ELSE Goes(c, "configured",
                     [calls[c] EXCEPT !.claude_config =
                         WithDefault(claude_config.val, "mcpServers")])
    /\ UNCHANGED <<patch_vars, store_vars, last, live, store_saved>>

\* lines 321-333 and 66: the entry of the server is set, then
\* save_claude_config opens the configuration file for writing
RaceOpenConfig(c) ==
    /\ calls[c].pc = "configured"
    /\ IF ~IsDict(GetItem(calls[c].claude_config, "mcpServers"))
       THEN /\ Raises(c, "TypeError")
            /\ UNCHANGED config_file
       ELSE /\ Goes(c, "config_opened",
                    [calls[c] EXCEPT !.claude_config =
                        SetItem2(calls[c].claude_config, "mcpServers",
                                 ConfigName(calls[c].project_name),
                                 ConfigEntry(calls[c].server_location))])
            /\ config_file' = TextFile("")
    /\ UNCHANGED <<patch_vars, db_file, files, dirs, uuids, installed, last,
                   live, store_saved>>

\* line 67 and the end of the with block: the configuration is written
RaceDumpConfig(c) ==
    /\ calls[c].pc = "config_opened"
    /\ config_file' = save_claude_config(calls[c].claude_config)
    /\ Goes(c, "config_saved", calls[c])
    /\ UNCHANGED <<patch_vars, db_file, files, dirs, uuids, installed, last,
                   live, store_saved>>

\* line 337: return server_entry
RaceReturn(c) ==
    /\ calls[c].pc = "config_saved"
    /\ Goes(c, "returned", calls[c])
    /\ last' = Call("create_server",
                    <<calls[c].project_name, calls[c].description>>, "",
                    EntryOf(calls[c]))
    /\ live' = LiveAfter(live, last')
    /\ UNCHANGED <<patch_vars, store_vars, store_saved>>

RaceNext ==
    \E c \in Callers :
        \/ RaceMake(c)
        \/ RaceLoadDatabase(c)
        \/ RaceOpenDatabase(c)
        \/ RaceDumpDatabase(c)
        \/ RaceLoadConfig(c)
        \/ RaceOpenConfig(c)
        \/ RaceDumpConfig(c)
        \/ RaceReturn(c)

RaceSpec == RaceInit /\ [][RaceNext]_vars

\* both calls have returned
BothReturned == \A c \in Callers : calls[c].pc = "returned"

\* the call c loaded a registry that held the record of the call d
SawRecordOf(c, d) ==
    HasKey(GetItem(calls[c].db, "servers"), calls[d].server_id)

\* C22: registry access is not serialized.  Once two concurrent create_server
\* calls have both returned, the registry holds the record of at least one
\* of them, and it holds both records only if one call loaded the registry
\* after the other had written it: a call that loaded before the other wrote
\* and wrote after it leaves the registry without the other's record.
C22_RecordKeptOnlyIfLoaded ==
    BothReturned =>
        \A servers \in {ServersOf(db_file)} :
            /\ \E c \in Callers : HasKey(servers, calls[c].server_id)
            /\ (\A c \in Callers : HasKey(servers, calls[c].server_id))
                   <=> \E c, d \in Callers : c # d /\ SawRecordOf(c, d)

\* C22 witness: both calls have returned their entries and the registry
\* holds the record of only one of them.
C22_Witness ==
    /\ BothReturned
    /\ \A c \in Callers : calls[c].raised = ""
    /\ last.op = "create_server" /\ last.raised = ""
    /\ Cardinality({c \in Callers :
                       HasKey(ServersOf(db_file), calls[c].server_id)}) = 1

\* C23: after any sequence of completed create_server, add_tool_to_server and
\* remove_server calls, every record of the registry has its location
\* directory on disk with a server.py in it.
C23_EveryRecordHasItsServerFile ==
    \A servers \in {ServersOf(db_file)} :
        \A i \in 1..PyLen(servers) :
            \A location \in {GetItem(ValueAt(servers, i), "location")[2]} :
                /\ location \in dirs
                /\ path_join(location, "server.py") \in DOMAIN files

C25_ConfigurationMatchesRegistry ==
    \A servers \in {ServersOf(db_file)}, entries \in {McpServersOf(config_file)} :
        /\ \A i \in 1..PyLen(servers) : \E k \in 1..PyLen(entries) :
               DirectoryArg(ValueAt(entries, k))
                   = GetItem(ValueAt(servers, i), "location")
        /\ \A k \in 1..PyLen(entries) : \E i \in 1..PyLen(servers) :
               DirectoryArg(ValueAt(entries, k))
                   = GetItem(ValueAt(servers, i), "location")

\* the lines of a text that are not empty and not import-like, in order
CodeLines(s) ==
    LET NotImport(line) == line # "" /\ MatchImportAt(line, 0) = -1
    IN  SelectSeq(PySplit(s, "\n"), NotImport)

RECURSIVE SubSeqFrom(_, _, _, _)
\* a[i..] is found in b[j..] in the same order, other elements in between
SubSeqFrom(a, i, b, j) ==
    IF i > Len(a) THEN TRUE
    ELSE IF j > Len(b) THEN FALSE
    ELSE IF a[i] = b[j] THEN SubSeqFrom(a, i + 1, b, j + 1)
    ELSE SubSeqFrom(a, i, b, j + 1)

\* C26: organize_imports_and_code(T, F) loses no code of T: every line of T
\* that is not an import-like statement is a line of the output, unchanged,
\* and these lines keep their relative order.
C26_CodeLinesOfTextKept ==
    patch_pc = "done" =>
        SubSeqFrom(CodeLines(patch_server_code), 1,
                   PySplit(patch_result, "\n"), 1)

\* C27: whatever the registry file holds, load_database() returns a value
\* with a top-level "servers" mapping, so that indexing db["servers"] never
\* fails in its callers.
C27_LoadGivesServersMapping ==
    last.op = "load_database" =>
        /\ last.raised = ""
        /\ IsDict(last.ret)
        /\ HasKey(last.ret, "servers")
        /\ IsDict(GetItem(last.ret, "servers"))

(***************************************************************************)
(* Longer runs of the lifecycle on two names, one inside the directory of  *)
(* the other: a server can get two tools, and a server can lose its file   *)
(* to the removal of the other                                             *)
(***************************************************************************)

\* most identifiers uuid.uuid4() generates in such a run
MaxToolUuids == 3

ToolsCreateServer ==
    /\ uuids < MaxToolUuids
    /\ \E w \in {World}, project_name \in {"Demo", "Demo/x"} :
           Commit("create_server", <<project_name, "d">>,
                  create_server(w, project_name, "d"))
    /\ live' = LiveAfter(live, last')
    /\ UNCHANGED <<patch_vars, store_saved, calls>>

ToolsRemoveServer ==
    /\ \E w \in {World}, server_name \in {"Demo"} :
           Commit("remove_server", <<server_name>>,
                  remove_server(w, server_name))
    /\ live' = LiveAfter(live, last')
    /\ UNCHANGED <<patch_vars, store_saved, calls>>

\* a call that raises before line 576 generates no identifier
ToolsAddTool ==
    /\ \E w \in {World}, server_name \in {"Demo", "Demo/x"},
          params \in {"a: int, b: int", "a"} :
         \E r \in {add_tool_to_server(w, server_name, "add", "sum",
                                      "return a + b", params, PyNone, TRUE)} :
           /\ r.uuids <= MaxToolUuids
           /\ Commit("add_tool_to_server",
                     <<server_name, "add", "sum", "return a + b", params,
                       PyNone>>, r)
    /\ live' = LiveAfter(live, last')
    /\ UNCHANGED <<patch_vars, store_saved, calls>>

\* the tool names remove_tool is given: the name of the tool and the
\* identifier generated last, which a tool added last is stored under
ToolsRemoveTool ==
    /\ \E w \in {World}, server_name \in {"Demo", "Demo/x"},
          tool_name \in {"add", uuid4(uuids)} :
           Commit("remove_tool", <<server_name, tool_name>>,
                  remove_tool(w, server_name, tool_name))
    /\ live' = LiveAfter(live, last')
    /\ UNCHANGED <<patch_vars, store_saved, calls>>

ToolsNext ==
    \/ ToolsCreateServer
    \/ ToolsRemoveServer
    \/ ToolsAddTool
    \/ ToolsRemoveTool

ToolsSpec == Init /\ [][ToolsNext]_vars

\* C28: when add_tool_to_server raises because the server name is unknown,
\* the server file is missing and no server_code is supplied, or a parameter
\* of params is not of the form name:type (the three places where it raises
\* ValueError), the call has modified no server file and not the registry.
C28_FailedAddToolChangesNothing ==
    [][(last'.op = "add_tool_to_server" /\ last'.raised = "ValueError") =>
           /\ files' = files
           /\ db_file' = db_file]_vars

\* C28 witness: add_tool_to_server has raised ValueError for a server that
\* the registry holds and whose server file is missing.
C28_Witness ==
    /\ last.op = "add_tool_to_server"
    /\ last.raised = "ValueError"
    /\ \E i \in {FirstNamed(ServersOf(db_file), last.args[1])} :
           /\ i # 0
           /\ path_join(GetItem(ValueAt(ServersOf(db_file), i), "location")[2],
                        "server.py") \notin DOMAIN files

\* C29: when remove_tool raises (unknown server, or the server's server.py is
\* missing) the registry is exactly what it was before the call: the tool
\* record leaves the registry only in a call that completes.
C29_FailedRemoveToolKeepsRegistry ==
    [][(last'.op = "remove_tool" /\ last'.raised # "") =>
           db_file' = db_file]_vars

\* the names of the tool records of a server record, in order
ToolNames(server_data) ==
    [k \in 1..PyLen(GetItem(server_data, "tools")) |->
        GetItem(ValueAt(GetItem(server_data, "tools"), k), "name")]

\* C30: after any sequence of completed add_tool_to_server calls on one
\* server, the names of the tool records of its registry entry are pairwise
\* distinct and its server.py holds at most one definition per tool name.
C30_OneRecordAndDefinitionPerToolName ==
    \A servers \in {ServersOf(db_file)} :
        \A i \in 1..PyLen(servers) :
            \A names \in {ToolNames(ValueAt(servers, i))},
               p \in {path_join(GetItem(ValueAt(servers, i), "location")[2],
                                "server.py")} :
                /\ \A j, k \in 1..Len(names) : j # k => names[j] # names[k]
                /\ p \in DOMAIN files =>
                       \A j \in 1..Len(names) :
                           CountFrom(files[p].text,
                                     "\ndef " \o names[j][2] \o "(", 0) <= 1

====
